---- MODULE Spec2Model ----
(***************************************************************************)
(* Voice bridge: the session orchestrator (app/session.py), the agent      *)
(* connection (app/deepgram_agent.py) and the websocket handler            *)
(* (app/routes.py).                                                        *)
(*                                                                         *)
(* Two drivers call the session:                                           *)
(*   Spec     the voice_stream handler of routes.py, one connection after  *)
(*            another, each with its own fresh VoiceSession;               *)
(*   ApiSpec  a direct caller of one VoiceSession object (as the tests     *)
(*            are), calling start() on an idle session and stop() at any   *)
(*            time no call is in progress.                                 *)
(* Both share the steps of start(), stop(), _cleanup(), connect(),         *)
(* disconnect() and the agent's receive loop.  More specifications         *)
(* look at one phase each in finer steps:                                  *)
(*   ConnSpec   the connected phase of a started session, every await of   *)
(*              the receive task, of the audio forwarding and of the       *)
(*              callbacks' send tasks being a point where others run;      *)
(*   EventSpec  _subscribe_events() run as the task held in _sse_task,     *)
(*              with stop() called on the session at any time, each event  *)
(*              handled by _handle_sse_event;                              *)
(*   CallSpec   the function handlers and the send methods called          *)
(*              directly, at any point of start() and stop();              *)
(*   SeqSpec    start() and stop() called one after another in any order;  *)
(*   RaceSpec   stop() called by a second task while a failing start()     *)
(*              is in its cleanup;                                         *)
(*   ManifestSpec  a VoiceAgent with any registrations connected by its    *)
(*              user, next to the session's own start();                   *)
(*   DrainSpec  the connected phase to the end of the handler, its         *)
(*              finally block in steps next to the receive task and the    *)
(*              send tasks.                                                *)
(*                                                                         *)
(* Modelling conventions.  An awaited collaborator (httpx, the Deepgram    *)
(* SDK, the websocket) returns, raises an Exception, or (close operations) *)
(* hangs until asyncio.wait_for's timeout cancels it.  A send on the agent *)
(* connection succeeds while the receive task lives.  A function-call      *)
(* entry follows the wire contract: a dict whose "arguments" is a string.  *)
(***************************************************************************)
EXTENDS Integers, Sequences, FiniteSets, TLC

\* ------------------------------------------------------------------ bounds
MaxIds == 2     \* distinct session ids (id(websocket) values) in use at once
MaxStarts == 1  \* start() calls of the direct caller
MaxStops == 2   \* stop() calls of the direct caller
MaxFuncs == 2   \* entries of one FunctionCallRequest
MaxFrames == 3  \* frames counted on one agent connection
MaxTasks == 2   \* send tasks the callbacks create on one connection
MaxFailures == 7 \* consecutive failures of the event stream
MaxSeqStarts == 2 \* start() calls of a caller that does not wait for Idle
MaxCount == 4   \* the counts of a TaskStatus and of a decompose_progress event

None == "None"

\* _subscribe_events: backoff = 1.0, max_backoff = 30.0
InitialBackoff == 1
MaxBackoff == 30

\* No function-call entry is being handled.
NoEntry == [func |-> None, outcome |-> None, frameNo |-> 0]

VARIABLES
  \* voice_stream handler (routes.py)
  hpc,        \* position of the handler ("api": no handler, direct caller)
  sid,        \* session_id of the current connection
  sessions,   \* the module-level registry: session_id -> owning handler
  exitPath,   \* how the handler left its try block
  readySent,  \* the `ready` message was sent on this connection
  audioFwd,   \* client audio was passed to session.send_audio and forwarded
  tasks,      \* pending_tasks and the finished send tasks, in creation order
  delivered,  \* the send tasks whose frame reached the client websocket
  \* VoiceSession (session.py)
  spc,        \* position inside the session call in progress
  call,       \* the session call in progress: "none", "start", "stop"
  active,     \* _active
  eigent,     \* _eigent: None or "client"
  agent,      \* _agent: None or "agent"
  sse_task,   \* _sse_task: None or "task"
  \* EigentClient
  httpx,      \* EigentClient._client: "none", "open", "closed"
  \* VoiceAgent
  functions,  \* self.functions: the registered names
  client,     \* self.client is set
  context,    \* self._connection_context is set
  connection, \* self.connection is set
  listen,     \* self._listen_task: "none", "running", "done", "cancelled"
  \* receive loop
  cur,        \* the frame being handled (NoMsg between frames)
  idx,        \* the entry of cur.functions _handle_function_call is at
  sent,       \* FunctionCallResponse frames sent while handling cur
  invoked,    \* ids of the entries of cur whose handler was invoked
  raisedIds,  \* ids of the entries of cur whose handler raised
  lpc,        \* the await the receive task is suspended in: "run" (none; at
              \* the websocket or between entries), "handler", "send"
  pend,       \* the entry _handle_function_call is in the middle of
  frameNo,    \* frames taken from the agent websocket (counted up to MaxFrames)
  \* event-consumption task (_subscribe_events)
  epc,        \* its position: "none", "check", "stream", "handle", "sleep",
              \* "cancelling", "cancelled", "exited"
  backoff,    \* the local `backoff`
  lastDelay,  \* the argument of the latest asyncio.sleep
  nFail,      \* failed subscriptions since the task began or a stream ended cleanly
  gotEvents,  \* the current subscription has delivered an event
  okBefore,   \* a subscription delivered an event since the latest sleep
  tainted,    \* a subscription delivered an event since nFail was last 0
  prev,       \* how the loop came to its `while` test: "start", "slept", "clean_end"
  sseEvent,   \* the SSEEvent _handle_sse_event was last called with
  queries,    \* the get_task_status queries made while handling sseEvent
  notes,      \* the messages passed to _notify_user while handling sseEvent
  injects,    \* what became of each of them (see InjectOutcomes)
  fault,      \* what the latest _handle_sse_event of this subscription
              \* raised into the loop (None: it returned)
  \* direct calls
  on_task_submitted, \* the session's on_task_submitted: None, or a callable
              \* that returns ("returns") or raises ("raises")
  probe,      \* the latest direct call of a handler or a send method, with
              \* what it did
  orphans,    \* connected VoiceAgent objects the session no longer refers to
  restarts,   \* start() calls made on a session that was not idle
  manifest,   \* the function names of the Settings frame the agent handed
              \* to its connection ({}: no frame yet)
  spc2,       \* position of a stop() that runs while start() cleans up
  \* history
  callLog,    \* the completed calls on this session object, in order
  relLog,     \* the release steps of the current call's _cleanup, with
              \* what the released collaborator did
  nAgent,     \* VoiceAgent objects this session created
  nDisc,      \* VoiceAgent.disconnect() invocations
  nEig,       \* EigentClient objects this session assigned to _eigent
  nClose,     \* EigentClient.__aexit__ invocations
  nStarts,    \* start() calls made by the direct caller
  nStops      \* stop() calls made (handler or direct caller)

handlerVars == <<hpc, sid, sessions, exitPath, readySent, audioFwd>>
sessionVars == <<spc, call, active, eigent, agent, sse_task, httpx>>
agentVars == <<functions, client, context, connection, listen>>
loopVars == <<cur, idx, sent, invoked, raisedIds>>
histVars == <<callLog, relLog, nAgent, nDisc, nEig, nClose, nStarts, nStops>>
outVars == <<tasks, delivered>>
connVars == <<lpc, pend, frameNo, outVars>>
handleVars == <<sseEvent, queries, notes, injects, fault>>
eventVars == <<epc, backoff, lastDelay, nFail, gotEvents, okBefore, tainted, prev,
               handleVars>>
eventRest == <<backoff, lastDelay, nFail, gotEvents, okBefore, tainted, prev,
               handleVars>>
callRest == <<on_task_submitted, probe, orphans, restarts, manifest>>
callVars == <<callRest, spc2>>
auxVars == <<connVars, eventVars, callVars>>
vars == <<handlerVars, sessionVars, agentVars, loopVars, histVars, auxVars>>

\* ------------------------------------------------------ program constants
\* The five functions start() registers with the agent.
FunctionNames ==
  {"submit_task", "get_project_context", "get_task_status", "confirm_start",
   "cancel_task"}

\* A frame of the agent connection that is not being handled.
NoMsg == [type |-> "none", n |-> 0, functions |-> <<>>]

\* ------------------------------------------------------------ VoiceSession
\* VoiceSession's dataclass defaults: the state of a fresh session object.
FreshSession ==
  /\ active = FALSE
  /\ eigent = None
  /\ agent = None
  /\ sse_task = None

\* VoiceAgent.__init__: no functions, no client, no connection, no task.
FreshAgent ==
  /\ functions = {}
  /\ client = FALSE
  /\ context = FALSE
  /\ connection = FALSE
  /\ listen = "none"

\* register_function: self.functions[name] = handler.
register_function(fs, name) == fs \cup {name}

\* The five register_function calls of start(), in order.
RegisteredByStartButOne ==
  register_function(register_function(register_function(
    register_function({}, "submit_task"), "get_project_context"),
    "get_task_status"), "confirm_start")

RegisteredByStart ==
  register_function(register_function(register_function(register_function(
    register_function({}, "submit_task"), "get_project_context"),
    "get_task_status"), "confirm_start"), "cancel_task")

\* self._active = True, the statement after `await self._agent.connect()`:
\* the flag after connect() ended as `outcome` says.
ActiveSetBeforeConnect(outcome, old) == TRUE

ActiveAfterConnect(outcome, old) == IF outcome = "ok" THEN TRUE ELSE old

\* start()'s except clause: where a failed step continues.  The clause awaits
\* _cleanup() and then re-raises.
StartFailureNextNoCleanup == "ret_raise"

StartFailureNext == "cl_sse"

\* The exceptions each try block of _cleanup catches.  "TimeoutError" is what
\* asyncio.wait_for raises when cleanup_timeout expires.
CleanupCatchesTimeoutOnly(step, exc) == exc = "TimeoutError"

CleanupCatches(step, exc) ==
  IF step = "sse"
    THEN exc \in {"CancelledError", "TimeoutError", "Exception"}
    ELSE exc \in {"TimeoutError", "Exception"}

\* asyncio.wait_for(..., timeout=cleanup_timeout): the timeout expires on an
\* operation that does not complete.
NoTimeout == FALSE

TimeoutFires == TRUE

\* What _cleanup stores in a field after its release step.
FieldKeptAfterRelease(old) == old

FieldAfterRelease(old) == None

\* disconnect()'s own try/except: it catches Exception (not CancelledError).
DisconnectCatches(exc) == exc = "Exception"

\* The end of _cleanup: start()'s except clause re-raises, stop() returns.
CleanupReturn == IF call = "start" THEN "ret_raise" ELSE "ret_ok"

\* The receive loop's per-frame state, cleared when its task ends.
LoopReset ==
  /\ cur' = NoMsg
  /\ idx' = 1
  /\ sent' = <<>>
  /\ invoked' = {}
  /\ raisedIds' = {}

\* disconnect()'s finally block: all connection state is reset.
DisconnectFinallyKeepsConnection ==
  /\ listen' = "none"
  /\ context' = FALSE
  /\ connection' = connection
  /\ client' = FALSE
  /\ UNCHANGED functions

DisconnectFinally ==
  /\ listen' = "none"
  /\ context' = FALSE
  /\ connection' = FALSE
  /\ client' = FALSE
  /\ UNCHANGED functions

\* ---------------------------------------------------------------- start()
\* self._eigent = EigentClient(auth_token); await self._eigent.__aenter__()
StartEigent ==
  /\ spc = "start_eigent"
  /\ \E outcome \in {"ctor_raise", "enter_raise", "ok"} :
       /\ eigent' = IF outcome = "ctor_raise" THEN eigent ELSE "client"
       /\ nEig' = IF outcome = "ctor_raise" THEN nEig ELSE nEig + 1
       /\ httpx' = IF outcome = "ok" THEN "open"
                   ELSE IF outcome = "enter_raise" THEN "none" ELSE httpx
       /\ spc' = IF outcome = "ok" THEN "start_agent" ELSE StartFailureNext
  /\ UNCHANGED <<auxVars, handlerVars, call, active, agent, sse_task, agentVars,
                 loopVars, callLog, relLog, nAgent, nDisc, nClose, nStarts, nStops>>

\* self._agent = VoiceAgent(...) replaces the reference the field held: an
\* agent object that was connected stays connected, and nothing refers to it.
StillConnected(conn) == IF conn THEN 1 ELSE 0

\* self._agent = VoiceAgent(...); the five register_function calls
StartAgent ==
  /\ spc = "start_agent"
  /\ \E outcome \in {"ctor_raise", "ok"} :
       IF outcome = "ok"
         THEN /\ agent' = "agent"
              /\ nAgent' = nAgent + 1
              /\ orphans' = orphans + StillConnected(connection)
              /\ manifest' = {}
              /\ functions' = RegisteredByStart
              /\ client' = FALSE
              /\ context' = FALSE
              /\ connection' = FALSE
              /\ listen' = "none"
              /\ spc' = "start_connect"
         ELSE /\ spc' = StartFailureNext
              /\ UNCHANGED <<agent, nAgent, agentVars, orphans, manifest>>
  /\ UNCHANGED <<connVars, eventVars, on_task_submitted, probe, restarts, spc2,
                 handlerVars, call, active, eigent, sse_task, httpx, loopVars,
                 callLog, relLog, nDisc, nEig, nClose, nStarts, nStops>>

\* connect() creates the receive task on its last line, after the Settings
\* frame was sent: an earlier failure leaves the task field as it was.
ListenStartedBeforeSettings(outcome, old) ==
  IF outcome \in {"send_raise", "ok"} THEN "running" ELSE old

ListenAfterConnect(outcome, old) == IF outcome = "ok" THEN "running" ELSE old

\* _get_function_definitions(): the names of the literal list it returns,
\* in order.  self.functions is not read.
get_function_definitions_short ==
  <<"submit_task", "get_project_context", "get_task_status", "confirm_start">>

get_function_definitions ==
  <<"submit_task", "get_project_context", "get_task_status", "confirm_start",
    "cancel_task">>

\* func_names = [f["name"] for f in ...["functions"]], as a set.
ManifestNames(defs) == {defs[i] : i \in DOMAIN defs}

\* The ways connect() ends: the SDK client's constructor raises, __aenter__
\* of the connection context raises, _send of the Settings frame raises, or
\* all of it succeeds.
ConnectOutcomes == {"client_raise", "open_raise", "send_raise", "ok"}

\* connect(): the SDK client, the Settings frame with the function manifest,
\* the connection context and its __aenter__, _send of the frame, then the
\* receive task.
Connect(outcome) ==
  /\ client' = (outcome # "client_raise")
  /\ context' = (outcome # "client_raise")
  /\ connection' = (outcome \in {"send_raise", "ok"})
  /\ manifest' = IF outcome \in {"send_raise", "ok"}
                   THEN ManifestNames(get_function_definitions)
                   ELSE manifest
  /\ listen' = ListenAfterConnect(outcome, listen)

\* await self._agent.connect(); self._active = True
StartConnect ==
  /\ spc = "start_connect"
  /\ \E outcome \in ConnectOutcomes :
       /\ Connect(outcome)
       /\ active' = ActiveAfterConnect(outcome, active)
       /\ spc' = IF outcome = "ok" THEN "ret_ok" ELSE StartFailureNext
  /\ LoopReset
  /\ UNCHANGED <<connVars, eventVars, on_task_submitted, probe, orphans, restarts,
                 spc2, handlerVars, call, eigent, agent, sse_task, httpx, functions,
                 histVars>>

\* ------------------------------------------------ VoiceAgent used directly
\* The names a user of a VoiceAgent may register: the five of start() and
\* one more.
RegistrableNames == RegisteredByStart \cup {"lookup_weather"}

\* agent.register_function(name, handler) on an agent not yet connected.
AgentRegister ==
  /\ hpc = "agent"
  /\ ~client
  /\ \E name \in RegistrableNames :
       functions' = register_function(functions, name)
  /\ UNCHANGED <<auxVars, handlerVars, sessionVars, client, context, connection,
                 listen, loopVars, histVars>>

\* await agent.connect() on that agent.
AgentConnect ==
  /\ hpc = "agent"
  /\ ~client
  /\ \E outcome \in ConnectOutcomes : Connect(outcome)
  /\ UNCHANGED <<connVars, eventVars, on_task_submitted, probe, orphans, restarts,
                 spc2, handlerVars, sessionVars, functions, loopVars, histVars>>

\* -------------------------------------------------------------- _cleanup()
counters == <<nAgent, nDisc, nEig, nClose, nStarts, nStops>>

\* task.cancel() on the event-consumption task: a task suspended at an
\* await gets CancelledError there when it next runs; a finished task is
\* left as it is.
CancelIgnored(p) == p

CancelRequested(p) ==
  IF p \in {"check", "stream", "handle", "sleep"} THEN "cancelling" ELSE p

\* What `await asyncio.wait_for(self._sse_task, ...)` raises: nothing when
\* the task had returned, CancelledError when the cancellation ended it.
\* The loop has no handler that swallows CancelledError, so a task that is
\* still going when the timeout fires is cancelled by wait_for itself.
SseAwaitOutcome(p) ==
  IF p = "exited" THEN "ok"
  ELSE IF p \in {"cancelling", "cancelled"} THEN "CancelledError"
  ELSE "TimeoutError"

\* The task's position once it has been awaited.
SseTaskEnded(p) == IF p = "exited" THEN "exited" ELSE "cancelled"

\* if self._sse_task: cancel it, wait_for it, self._sse_task = None
CleanupSse ==
  /\ spc = "cl_sse"
  /\ IF sse_task # None
       THEN LET exc == SseAwaitOutcome(epc)
            IN /\ relLog' = Append(relLog, [step |-> "sse", outcome |-> exc])
               /\ epc' = SseTaskEnded(epc)
               /\ IF exc = "ok" \/ CleanupCatches("sse", exc)
                    THEN /\ sse_task' = FieldAfterRelease(sse_task)
                         /\ spc' = "cl_agent"
                    ELSE /\ sse_task' = sse_task
                         /\ spc' = "ret_raise"
       ELSE /\ spc' = "cl_agent"
            /\ UNCHANGED <<sse_task, relLog, epc>>
  /\ UNCHANGED <<connVars, callVars, eventRest, handlerVars, call, active, eigent, agent, httpx, agentVars,
                 loopVars, callLog, counters>>

\* The end of _cleanup's agent step: disconnect()'s finally block has run,
\* `outcome` is what closing the transport did and `exc` what wait_for raised.
AgentReleased(outcome, exc) ==
  /\ DisconnectFinally
  /\ relLog' = Append(relLog, [step |-> "agent", outcome |-> outcome])
  /\ IF exc = "ok" \/ CleanupCatches("agent", exc)
       THEN /\ agent' = FieldAfterRelease(agent)
            /\ spc' = "cl_eigent"
       ELSE /\ agent' = agent
            /\ spc' = "ret_raise"

\* if self._agent: wait_for(self._agent.disconnect()).  disconnect() cancels
\* the receive task and awaits it (the task re-raises CancelledError, so it
\* ends), then goes on to close the connection context, if there is one.
CleanupAgent ==
  /\ spc = "cl_agent"
  /\ IF agent = None
       THEN /\ spc' = "cl_eigent"
            /\ UNCHANGED <<agent, agentVars, loopVars, nDisc, relLog>>
       ELSE /\ nDisc' = nDisc + 1
            /\ IF listen = "running" THEN LoopReset ELSE UNCHANGED loopVars
            /\ IF context
                 THEN /\ listen' = IF listen = "running" THEN "cancelled" ELSE listen
                      /\ spc' = "cl_close"
                      /\ UNCHANGED <<agent, functions, client, context,
                                     connection, relLog>>
                 ELSE AgentReleased("ok", "ok")
  /\ UNCHANGED <<auxVars, handlerVars, call, active, eigent, sse_task, httpx, callLog,
                 nAgent, nEig, nClose, nStarts, nStops>>

\* disconnect(): await self._connection_context.__aexit__(None, None, None)
DisconnectClose ==
  /\ spc = "cl_close"
  /\ \E outcome \in {"ok", "Exception", "hang"} :
       IF outcome = "hang"
         THEN /\ spc' = "cl_close_hung"
              /\ UNCHANGED <<agent, agentVars, relLog>>
         ELSE AgentReleased(outcome,
                            IF outcome = "ok" \/ DisconnectCatches(outcome)
                              THEN "ok" ELSE outcome)
  /\ UNCHANGED <<auxVars, handlerVars, call, active, eigent, sse_task, httpx, loopVars,
                 callLog, counters>>

\* wait_for's timeout on a disconnect() that hangs in __aexit__: disconnect()
\* is cancelled, its finally block runs, wait_for raises TimeoutError.
DisconnectTimeout ==
  /\ spc = "cl_close_hung"
  /\ TimeoutFires
  /\ AgentReleased("hang",
                   IF DisconnectCatches("CancelledError") THEN "ok" ELSE "TimeoutError")
  /\ UNCHANGED <<auxVars, handlerVars, call, active, eigent, sse_task, httpx, loopVars,
                 callLog, counters>>

\* The end of _cleanup's backend-client step: `outcome` is what closing the
\* client did and `exc` what wait_for raised.
EigentReleased(outcome, exc) ==
  /\ relLog' = Append(relLog, [step |-> "eigent", outcome |-> outcome])
  /\ IF exc = "ok" \/ CleanupCatches("eigent", exc)
       THEN /\ eigent' = FieldAfterRelease(eigent)
            /\ spc' = CleanupReturn
       ELSE /\ eigent' = eigent
            /\ spc' = "ret_raise"

\* if self._eigent: wait_for(self._eigent.__aexit__(None, None, None)).
\* __aexit__ closes the httpx client when there is one.
CleanupEigent ==
  /\ spc = "cl_eigent"
  /\ IF eigent = None
       THEN /\ spc' = CleanupReturn
            /\ UNCHANGED <<eigent, httpx, nClose, relLog>>
       ELSE /\ nClose' = nClose + 1
            /\ IF httpx = "open"
                 THEN \E outcome \in {"ok", "Exception", "hang"} :
                        IF outcome = "hang"
                          THEN /\ spc' = "cl_eigent_hung"
                               /\ UNCHANGED <<eigent, httpx, relLog>>
                          ELSE /\ httpx' = IF outcome = "ok" THEN "closed" ELSE httpx
                               /\ EigentReleased(outcome, outcome)
                 ELSE /\ EigentReleased("ok", "ok")
                      /\ UNCHANGED httpx
  /\ UNCHANGED <<auxVars, handlerVars, call, active, agent, sse_task, agentVars,
                 loopVars, callLog, nAgent, nDisc, nEig, nStarts, nStops>>

\* wait_for's timeout on an __aexit__ that hangs in aclose().
EigentCloseTimeout ==
  /\ spc = "cl_eigent_hung"
  /\ TimeoutFires
  /\ EigentReleased("hang", "TimeoutError")
  /\ UNCHANGED <<auxVars, handlerVars, call, active, agent, sse_task, httpx, agentVars,
                 loopVars, callLog, counters>>

\* ----------------------------------------------------------------- stop()
\* self._active = False; await self._cleanup()
\* (_cleanup's `self._sse_task.cancel()` follows with no await in between:
\* the flag is cleared and the cancellation requested in one step.)
StopBegin ==
  /\ active' = FALSE
  /\ call' = "stop"
  /\ spc' = "cl_sse"
  /\ nStops' = nStops + 1
  /\ relLog' = <<>>
  /\ epc' = IF sse_task # None THEN CancelRequested(epc) ELSE epc

SessionStep ==
  \/ StartEigent
  \/ StartAgent
  \/ StartConnect
  \/ CleanupSse
  \/ CleanupAgent
  \/ DisconnectClose
  \/ DisconnectTimeout
  \/ CleanupEigent
  \/ EigentCloseTimeout

\* ------------------------------------------------------------- VoiceAgent
\* The shapes of one entry of a FunctionCallRequest's "functions" list:
\* a registered and an unregistered name; arguments that parse, that do not,
\* and the empty string; one server-side entry (its other fields are not read).
EntryNames == {"submit_task", "no_such_function"}
ArgumentStrings == {"json", "garbage", ""}
EntryShapes ==
  [name : EntryNames, arguments : ArgumentStrings, client_side : {TRUE}]
    \cup {[name |-> "submit_task", arguments |-> "json", client_side |-> FALSE]}

\* The text frames the agent connection delivers: a FunctionCallRequest
\* with n entries (0..MaxFuncs), or a frame of another recognized type.  The
\* entries of a request are drawn one by one as _handle_function_call's loop
\* reaches them: `functions` holds the entries read so far, the entry at
\* position i carrying the call id i.
Messages ==
  {[type |-> "FunctionCallRequest", n |-> k, functions |-> <<>>] : k \in 0..MaxFuncs}
    \cup {[type |-> "Welcome", n |-> 0, functions |-> <<>>]}

\* json.loads(arguments_str) if arguments_str else {}
ParseArguments(arguments_str) ==
  IF arguments_str = "" THEN "ok"
  ELSE IF arguments_str = "garbage" THEN "JSONDecodeError" ELSE "ok"

\* The content of a response: handler result or {"error": text}.
ResultContent == [kind |-> "result", text |-> "", arg |-> ""]
ErrorContent(text, arg) == [kind |-> "error", text |-> text, arg |-> arg]

\* _send_function_response: nothing is sent without a connection.
SendFunctionResponseAnyId(call_id, name, content) ==
  IF ~connection THEN <<>>
  ELSE <<[type |-> "FunctionCallResponse", id |-> 1, name |-> name,
          content |-> content]>>

SendFunctionResponse(call_id, name, content) ==
  IF ~connection THEN <<>>
  ELSE <<[type |-> "FunctionCallResponse", id |-> call_id, name |-> name,
          content |-> content]>>

\* The except clause around the handler call and its response.
ExecCatchesNothing(exc) == FALSE

ExecCatches(exc) == exc = "Exception"

\* The except clause of _handle_function_call's argument parsing.
ParseCatchesNothing(exc) == FALSE

ParseCatches(exc) == exc = "JSONDecodeError"

\* The membership test `func_name in self.functions`.
IsRegisteredAlways(name) == TRUE

IsRegistered(name) == name \in functions

\* One iteration of _handle_function_call's loop, on entry `func`, the
\* registered handler returning or raising as `outcome` says.
\*   frames: the responses sent; called: the handler was invoked;
\*   raised: it raised; escapes: the exception that leaves the function.
HandleFunction(func, outcome) ==
  LET quiet == [frames |-> <<>>, called |-> FALSE, raised |-> FALSE,
                escapes |-> None]
  IN IF ~func.client_side THEN quiet
     ELSE IF ParseArguments(func.arguments) # "ok"
       THEN IF ParseCatches(ParseArguments(func.arguments))
              THEN [quiet EXCEPT !.frames = SendFunctionResponse(func.id,
                      func.name, ErrorContent("Invalid function arguments", ""))]
              ELSE [quiet EXCEPT !.escapes = "Exception"]
     ELSE IF IsRegistered(func.name)
       THEN IF outcome = "return"
              THEN [quiet EXCEPT !.called = TRUE,
                      !.frames = SendFunctionResponse(func.id, func.name,
                                                      ResultContent)]
              ELSE IF ExecCatches("Exception")
                THEN [quiet EXCEPT !.called = TRUE, !.raised = TRUE,
                        !.frames = SendFunctionResponse(func.id, func.name,
                                     ErrorContent("Function execution failed", ""))]
                ELSE [quiet EXCEPT !.called = TRUE, !.raised = TRUE,
                        !.escapes = "Exception"]
     ELSE [quiet EXCEPT !.frames = SendFunctionResponse(func.id, func.name,
              ErrorContent("Unknown function", func.name))]

\* _message_loop's inner except clause: an Exception of one frame is logged.
LoopCatches(exc) == exc = "Exception"

\* The receive point of _message_loop: no frame is being handled.
AtReceive == idx > cur.n

\* async for raw_message in websocket: the next frame arrives and
\* _handle_raw_message dispatches on its type.
Recv ==
  /\ listen = "running"
  /\ AtReceive
  /\ \E m \in Messages : cur' = m
  /\ idx' = 1
  /\ sent' = <<>>
  /\ invoked' = {}
  /\ raisedIds' = {}
  /\ UNCHANGED <<auxVars, handlerVars, sessionVars, agentVars, histVars>>

\* The entry at position i of the request, of the given shape.
EntryAt(i, shape) ==
  [id |-> i, name |-> shape.name, arguments |-> shape.arguments,
   client_side |-> shape.client_side]

\* The loop body of _handle_function_call is over for entry `func`, with
\* the result `r` of HandleFunction: the loop moves to the next entry, or
\* an exception leaves the function and reaches _message_loop.
EntryDone(func, r) ==
  /\ cur' = [cur EXCEPT !.functions = Append(@, func)]
  /\ sent' = sent \o r.frames
  /\ invoked' = IF r.called THEN invoked \cup {func.id} ELSE invoked
  /\ raisedIds' = IF r.raised THEN raisedIds \cup {func.id} ELSE raisedIds
  /\ idx' = IF r.escapes = None THEN idx + 1 ELSE cur.n + 1
  /\ listen' = IF r.escapes = None \/ LoopCatches(r.escapes)
                 THEN listen ELSE "done"

\* _handle_function_call: the next entry of the request, from its read to
\* its response, the awaits in between taken as returning at once.
DispatchEntry ==
  /\ listen = "running"
  /\ cur.type = "FunctionCallRequest"
  /\ idx <= cur.n
  /\ \E shape \in EntryShapes, outcome \in {"return", "raise"} :
       EntryDone(EntryAt(idx, shape), HandleFunction(EntryAt(idx, shape), outcome))
  /\ UNCHANGED <<auxVars, handlerVars, sessionVars, functions, client, context,
                 connection, histVars>>

\* The vendor closes the websocket: the async for ends, the task finishes.
TransportClosed ==
  /\ listen = "running"
  /\ AtReceive
  /\ listen' = "done"
  /\ LoopReset
  /\ UNCHANGED <<auxVars, handlerVars, sessionVars, functions, client, context,
                 connection, histVars>>

ListenStep ==
  \/ Recv
  \/ DispatchEntry
  \/ TransportClosed

\* ------------------------------------------------------------ voice_stream
\* What the client websocket delivers to `await websocket.receive()`.
ClientFrames ==
  {"audio", "audio_send_fails", "stop", "control", "bad_json", "disconnect"}

\* session.send_audio / VoiceAgent.send_audio: the bytes are passed to the
\* agent connection when the session is active and has a connected agent.
AudioForwarded == active /\ agent # None /\ connection

\* The handler's position after one received frame, and the way it leaves
\* the loop ("none": it stays in the loop).
FrameExit(frame) ==
  IF frame = "stop" THEN "stop_msg"
  ELSE IF frame = "disconnect" THEN "disconnect"
  ELSE IF frame = "audio_send_fails" /\ AudioForwarded
    THEN "error"
  ELSE "none"

\* del sessions[session_id]
RegistryKept(reg, id) == reg

RegistryAfterDel(reg, id) == [i \in DOMAIN reg \ {id} |-> reg[i]]

\* The ids id(websocket) can take.
SessionIds == 1..MaxIds

\* The registry entries of the other connections' handlers.
Others == {i \in DOMAIN sessions : sessions[i] = "other"}

\* sessions[session_id] = session
RegistryPut(reg, id, owner) ==
  [i \in DOMAIN reg \cup {id} |-> IF i = id THEN owner ELSE reg[i]]

\* The handler accepts a connection: a fresh VoiceSession is created and
\* registered under the id of its websocket (no live websocket shares it),
\* and session.start() is called.
Accept ==
  /\ hpc \in {"idle", "returned"}
  /\ \E id \in SessionIds \ Others :
       /\ sid' = id
       /\ sessions' = RegistryPut(sessions, id, "this")
  /\ hpc' = "in_start"
  /\ spc' = "start_eigent"
  /\ call' = "start"
  /\ active' = FALSE
  /\ eigent' = None
  /\ agent' = None
  /\ sse_task' = None
  /\ httpx' = "none"
  /\ functions' = {}
  /\ client' = FALSE
  /\ context' = FALSE
  /\ connection' = FALSE
  /\ listen' = "none"
  /\ LoopReset
  /\ readySent' = FALSE
  /\ audioFwd' = FALSE
  /\ callLog' = <<>>
  /\ relLog' = <<>>
  /\ nAgent' = 0
  /\ nDisc' = 0
  /\ nEig' = 0
  /\ nClose' = 0
  /\ nStops' = 0
  /\ UNCHANGED <<auxVars, exitPath, nStarts>>

\* Another connection's handler registers its session (line 135) or removes
\* it (line 195); its id is that of a different live websocket.
OtherHandler ==
  /\ \/ \E id \in SessionIds \ DOMAIN sessions :
          sessions' = RegistryPut(sessions, id, "other")
     \/ \E id \in Others :
          sessions' = [i \in DOMAIN sessions \ {id} |-> sessions[i]]
  /\ UNCHANGED <<auxVars, hpc, sid, exitPath, readySent, audioFwd, sessionVars,
                 agentVars, loopVars, histVars>>

\* Where the handler goes when start() is over: on to the `ready` message
\* when it returned, to the except clause and the finally block when it raised.
AfterStartAlwaysReady(ret) == "ready"

AfterStart(ret) == IF ret = "ret_ok" THEN "ready" ELSE "finally"

\* session.start() returns or raises into the handler's try block.
HandlerStartReturns ==
  /\ hpc = "in_start"
  /\ spc \in {"ret_ok", "ret_raise"}
  /\ callLog' = Append(callLog, IF spc = "ret_ok" THEN "start_ok" ELSE "start_raised")
  /\ hpc' = AfterStart(spc)
  /\ exitPath' = IF spc = "ret_ok" THEN "none" ELSE "start_failed"
  /\ spc' = "idle"
  /\ call' = "none"
  /\ UNCHANGED <<auxVars, sid, sessions, readySent, audioFwd, active, eigent, agent, sse_task, httpx,
                 agentVars, loopVars, relLog, nAgent, nDisc, nEig, nClose, nStarts,
                 nStops>>

\* await send_json({"type": "ready"}): send_json logs its own failures.
SendReady ==
  /\ hpc = "ready"
  /\ hpc' = "recv"
  /\ readySent' = TRUE
  /\ UNCHANGED <<auxVars, sid, sessions, exitPath, audioFwd, sessionVars, agentVars,
                 loopVars, histVars>>

\* One turn of the receive loop: audio is forwarded, `stop` breaks, other
\* control text is ignored, a disconnect or an error leaves the try block.
ReceiveFrame ==
  /\ hpc = "recv"
  /\ \E frame \in ClientFrames :
       /\ exitPath' = FrameExit(frame)
       /\ hpc' = IF FrameExit(frame) = "none" THEN "recv" ELSE "finally"
       /\ audioFwd' = (audioFwd \/ (frame \in {"audio", "audio_send_fails"}
                                      /\ AudioForwarded))
  /\ UNCHANGED <<auxVars, sid, sessions, readySent, sessionVars, agentVars, loopVars,
                 histVars>>

\* pending_tasks: the send tasks that have not ended (each task's done
\* callback takes it off the list).
PendingTasks(ts) == {i \in DOMAIN ts : ts[i] \in {"ready", "sending"}}

\* for task in pending_tasks: if not task.done(): task.cancel()
CancelPending(ts) ==
  [i \in DOMAIN ts |-> IF i \in PendingTasks(ts) THEN "cancelling" ELSE ts[i]]

\* The finally block up to its first await: the sweep over pending_tasks,
\* then `await asyncio.gather(*pending_tasks, ...)` when the list is not
\* empty, and `await session.stop()` at once when it is.
HandlerFinally ==
  /\ hpc = "finally"
  /\ spc = "idle"
  /\ tasks' = CancelPending(tasks)
  /\ IF PendingTasks(tasks) # {}
       THEN /\ hpc' = "gather"
            /\ UNCHANGED <<active, call, spc, nStops, relLog, epc>>
       ELSE /\ hpc' = "in_stop"
            /\ StopBegin
  /\ UNCHANGED <<lpc, pend, frameNo, delivered, callVars, eventRest, sid, sessions,
                 exitPath, readySent, audioFwd, eigent, agent, sse_task,
                 httpx, agentVars, loopVars, callLog, nAgent, nDisc, nEig,
                 nClose, nStarts>>

\* A cancelled send task runs once more and ends: send_json and send_audio
\* catch Exception, which CancelledError is not.
TaskCancelled ==
  /\ \E i \in DOMAIN tasks :
       /\ tasks[i] = "cancelling"
       /\ tasks' = [tasks EXCEPT ![i] = "cancelled"]
  /\ UNCHANGED <<delivered, lpc, pend, frameNo, eventVars, callVars, handlerVars,
                 sessionVars, agentVars, loopVars, histVars>>

\* gather returns: every task of the list it was given has ended.  The
\* finally block goes on to `await session.stop()`.
GatherDone ==
  /\ hpc = "gather"
  /\ \A i \in DOMAIN tasks : tasks[i] # "cancelling"
  /\ hpc' = "in_stop"
  /\ StopBegin
  /\ UNCHANGED <<connVars, callVars, eventRest, sid, sessions, exitPath, readySent,
                 audioFwd, eigent, agent, sse_task,
                 httpx, agentVars, loopVars, callLog, nAgent, nDisc, nEig,
                 nClose, nStarts>>

\* session.stop() is over: `del sessions[session_id]` runs when it returned,
\* and the handler ends.
HandlerStopReturns ==
  /\ hpc = "in_stop"
  /\ spc \in {"ret_ok", "ret_raise"}
  /\ callLog' = Append(callLog, IF spc = "ret_ok" THEN "stop_ok" ELSE "stop_raised")
  /\ sessions' = IF spc = "ret_ok" THEN RegistryAfterDel(sessions, sid) ELSE sessions
  /\ hpc' = "returned"
  /\ spc' = "idle"
  /\ call' = "none"
  /\ UNCHANGED <<auxVars, sid, exitPath, readySent, audioFwd, active, eigent, agent,
                 sse_task, httpx,
                 agentVars, loopVars, relLog, nAgent, nDisc, nEig, nClose, nStarts,
                 nStops>>

HandlerStep ==
  \/ Accept
  \/ HandlerStartReturns
  \/ SendReady
  \/ ReceiveFrame
  \/ HandlerFinally
  \/ HandlerStopReturns
  \/ OtherHandler

\* --------------------------------------------- the connected phase in steps
\* The session between `ready` and the end of the handler's receive loop,
\* with every await of the receive task, of the handler's audio forwarding
\* and of the callbacks' send tasks as a point where the other tasks run.

\* The other frames the agent websocket delivers: binary audio, text frames
\* of types that fire a callback, a text frame with a type the dispatch
\* does not know, text that is not JSON, and JSON that is not an object.
AgentFrameTypes ==
  {"Audio", "ConversationText", "UserStartedSpeaking", "Unknown", "NotJson",
   "NotObject"}

AgentFrames ==
  Messages \cup {[type |-> t, n |-> 0, functions |-> <<>>] : t \in AgentFrameTypes}

\* _handle_raw_message: the callback a frame of this type fires, if any.
CallbackOfAnyFrame(type) == "on_transcript"

CallbackOf(type) ==
  IF type = "Audio" THEN "on_audio"
  ELSE IF type = "ConversationText" THEN "on_transcript"
  ELSE IF type = "UserStartedSpeaking" THEN "on_user_started_speaking"
  ELSE None

\* _handle_raw_message: the exception that leaves it.  JSONDecodeError is
\* caught inside; `msg.get` on JSON that is not an object raises.
RawMessageRaises(type) == IF type = "NotObject" THEN "Exception" ELSE None

\* `await self._handle_raw_message(raw_message)` has returned: the async for
\* asks the websocket for the next frame only then.
HandlingDoneNotAwaited == TRUE

HandlingDone == lpc = "run" /\ AtReceive

\* async for raw_message in websocket / _handle_raw_message: the next frame.
\* A callback (VoiceAgent on_* -> VoiceSession._handle_* -> the handler's
\* on_*) creates one send task and appends it to pending_tasks.
ConnRecv ==
  /\ listen = "running"
  /\ HandlingDone
  /\ frameNo < MaxFrames
  /\ \E m \in AgentFrames :
       /\ CallbackOf(m.type) # None => Len(tasks) < MaxTasks
       /\ cur' = m
       /\ tasks' = IF CallbackOf(m.type) # None THEN Append(tasks, "ready")
                    ELSE tasks
       /\ listen' = IF \/ RawMessageRaises(m.type) = None
                       \/ LoopCatches(RawMessageRaises(m.type))
                      THEN listen ELSE "done"
  /\ frameNo' = frameNo + 1
  /\ idx' = 1
  /\ sent' = <<>>
  /\ invoked' = {}
  /\ raisedIds' = {}
  /\ UNCHANGED <<lpc, pend, delivered, eventVars, callVars, handlerVars, sessionVars,
                 functions, client, context, connection, histVars>>

\* _handle_function_call reads the next entry and runs up to its first
\* await: the registered handler, or the send of an error response.
ConnDispatch ==
  /\ listen = "running"
  /\ lpc = "run"
  /\ cur.type = "FunctionCallRequest"
  /\ idx <= cur.n
  /\ \E shape \in EntryShapes, outcome \in {"return", "raise"} :
       LET func == EntryAt(idx, shape)
           r == HandleFunction(func, outcome)
       IN IF r.called
            THEN /\ lpc' = "handler"
                 /\ pend' = [func |-> func, outcome |-> outcome, frameNo |-> frameNo]
                 /\ UNCHANGED <<loopVars, listen>>
            ELSE IF r.frames # <<>>
              THEN /\ outcome = "return"
                   /\ lpc' = "send"
                   /\ pend' = [func |-> func, outcome |-> outcome, frameNo |-> frameNo]
                   /\ UNCHANGED <<loopVars, listen>>
              ELSE /\ outcome = "return"
                   /\ EntryDone(func, r)
                   /\ UNCHANGED <<lpc, pend>>
  /\ UNCHANGED <<frameNo, outVars, eventVars, callVars, handlerVars, sessionVars, functions,
                 client, context, connection, histVars>>

\* The loop body is over for the entry in progress.
PendDone ==
  /\ EntryDone(pend.func, HandleFunction(pend.func, pend.outcome))
  /\ lpc' = "run"
  /\ pend' = NoEntry

\* `await self.functions[func_name](**func_args)` returns or raises: the
\* response, result or error, is sent next.
ConnHandlerDone ==
  /\ listen = "running"
  /\ lpc = "handler"
  /\ IF HandleFunction(pend.func, pend.outcome).frames # <<>>
       THEN /\ lpc' = "send"
            /\ UNCHANGED <<pend, loopVars, listen>>
       ELSE PendDone
  /\ UNCHANGED <<frameNo, outVars, eventVars, callVars, handlerVars, sessionVars, functions,
                 client, context, connection, histVars>>

\* `await self.connection._send(response)` returns.
ConnSendDone ==
  /\ listen = "running"
  /\ lpc = "send"
  /\ PendDone
  /\ UNCHANGED <<frameNo, outVars, eventVars, callVars, handlerVars, sessionVars, functions,
                 client, context, connection, histVars>>

\* The handler receives client audio: session.send_audio ->
\* VoiceAgent.send_audio -> `await self.connection.send_media(audio_bytes)`.
ConnAudioBegin ==
  /\ hpc = "recv"
  /\ AudioForwarded
  /\ hpc' = "audio_send"
  /\ audioFwd' = TRUE
  /\ UNCHANGED <<sid, sessions, exitPath, readySent, sessionVars, agentVars,
                 loopVars, histVars, auxVars>>

\* send_media returns: the handler is back at `await websocket.receive()`.
ConnAudioDone ==
  /\ hpc = "audio_send"
  /\ hpc' = "recv"
  /\ UNCHANGED <<sid, sessions, exitPath, readySent, audioFwd, sessionVars,
                 agentVars, loopVars, histVars, auxVars>>

\* A task made by asyncio.create_task runs its first step: send_json or
\* send_audio reaches `await websocket.send_text/send_bytes`.  The event
\* loop starts the tasks in the order of their creation.
ConnTaskStart ==
  /\ \E i \in DOMAIN tasks :
       /\ tasks[i] = "ready"
       /\ \A j \in 1..(i - 1) : tasks[j] # "ready"
       /\ tasks' = [tasks EXCEPT ![i] = "sending"]
  /\ UNCHANGED <<delivered, lpc, pend, frameNo, eventVars, callVars, handlerVars,
                 sessionVars, agentVars, loopVars, histVars>>

\* The task's send on the client websocket returns, its frame written, or
\* raises, which send_json / send_audio log.
ConnTaskDone ==
  /\ \E i \in DOMAIN tasks, outcome \in {"ok", "Exception"} :
       /\ tasks[i] = "sending"
       /\ tasks' = [tasks EXCEPT ![i] = "done"]
       /\ delivered' = IF outcome = "ok" THEN Append(delivered, i) ELSE delivered
  /\ UNCHANGED <<lpc, pend, frameNo, eventVars, callVars, handlerVars, sessionVars,
                 agentVars, loopVars, histVars>>

ConnStep ==
  \/ ConnRecv
  \/ ConnDispatch
  \/ ConnHandlerDone
  \/ ConnSendDone
  \/ TransportClosed
  \/ ConnAudioBegin
  \/ ConnAudioDone
  \/ ConnTaskStart
  \/ ConnTaskDone

\* ------------------------------------------------------ _handle_sse_event
\* The events the backend stream delivers: SSEEvent(event, data).  `data` is
\* a dict; the fields the handler does not read stand as "other".
EventStates == {"completed", "failed", "running"}

SSEEvents ==
  {[event |-> "task_state", data |-> [state |-> st]] : st \in EventStates}
    \cup {[event |-> "task_state", data |-> [other |-> 0]]}
    \cup {[event |-> "decompose_progress", data |-> [task_count |-> c]] :
            c \in 0..MaxCount}
    \cup {[event |-> e, data |-> [other |-> 0]] :
            e \in {"decompose_progress", "timeout", "agent_message"}}

\* No event has been handled yet.
NoEvent == [event |-> "none", data |-> [other |-> 0]]

\* dict.get(key, default)
DataGet(data, key, default) ==
  IF key \in DOMAIN data THEN data[key] ELSE default

\* What `await self._eigent.get_task_status(self.project_id)` does: it
\* raises, or returns a TaskStatus with these counts.
StatusRaised == [raised |-> TRUE, completed |-> 0, total |-> 0]

StatusOutcomes ==
  {StatusRaised}
    \cup {[raised |-> FALSE, completed |-> c, total |-> t] :
            c \in 0..MaxCount, t \in 0..MaxCount}

\* The query as the handler sees it: without a backend client the attribute
\* access raises.
StatusSeen(status) == IF eigent = None THEN StatusRaised ELSE status

\* if status.completed == status.total
AllDoneAlways(status) == TRUE

AllDone(status) == status.completed = status.total

\* The branch of the handler a task_state event takes.
StateBranchFailedElse(state) ==
  IF state = "completed" THEN "completed" ELSE "failed"

StateBranch(state) ==
  IF state = "completed" THEN "completed"
  ELSE IF state = "failed" THEN "failed" ELSE None

\* The texts of the notifications.
AllDoneText(status) == "All done. " \o ToString(status.total) \o " tasks completed."
PartialText(status) ==
  ToString(status.completed) \o " of " \o ToString(status.total) \o " done."
GenericText == "A task completed."
FailedText == "A task failed. Should I retry or skip it?"
DecomposedText(count) ==
  "I've broken this into " \o ToString(count) \o " tasks. Ready to start?"
TimeoutText == "This is taking a while. Keep waiting or cancel?"

\* _handle_sse_event(event), the status query ending as `status` says:
\* the status queries it makes and the messages it passes to _notify_user
\* (which does not raise: inject_message catches what a send raises).
HandleSseEvent(ev, status) ==
  LET quiet == [queries |-> <<>>, notes |-> <<>>]
      seen == StatusSeen(status)
  IN IF ev.event = "task_state"
       THEN IF StateBranch(DataGet(ev.data, "state", None)) = "completed"
              THEN IF seen.raised
                     THEN [queries |-> <<seen>>, notes |-> <<GenericText>>]
                     ELSE IF AllDone(seen)
                       THEN [queries |-> <<seen>>, notes |-> <<AllDoneText(seen)>>]
                       ELSE [queries |-> <<seen>>, notes |-> <<PartialText(seen)>>]
            ELSE IF StateBranch(DataGet(ev.data, "state", None)) = "failed"
              THEN [quiet EXCEPT !.notes = <<FailedText>>]
              ELSE quiet
     ELSE IF ev.event = "decompose_progress"
       THEN [quiet EXCEPT !.notes =
               <<DecomposedText(DataGet(ev.data, "task_count", 0))>>]
     ELSE IF ev.event = "timeout"
       THEN [quiet EXCEPT !.notes = <<TimeoutText>>]
       ELSE quiet

\* ------------------------------------------------------ _subscribe_events
\* The event-consumption task, one action per stretch between two awaits.

\* backoff = min(backoff * 2, max_backoff)
NextBackoffUncapped(b) == b * 2

NextBackoff(b) == IF b * 2 < MaxBackoff THEN b * 2 ELSE MaxBackoff

\* `while self._active:` and the lines up to the subscription: the loop
\* ends when the flag is off or the backend client is gone, and otherwise
\* waits on eigent.subscribe_events(...) for the first event.
EvSubscribe ==
  /\ epc' = IF active /\ eigent # None THEN "stream" ELSE "exited"
  /\ gotEvents' = FALSE
  /\ fault' = None
  /\ UNCHANGED <<sseEvent, queries, notes, injects>>

\* `async for event in ...`: the loop asks the stream for its next event
\* only when the body of the loop has ended.
StreamReadyDuringHandling(p) == p \in {"stream", "handle"}

StreamReady(p) == p = "stream"

\* What a notification can meet: no agent, an agent without a connection,
\* a connection with neither send_inject nor inject, an injection call that
\* raises, or one that goes through.
InjectOutcomes ==
  IF agent = None THEN {"no_agent"}
  ELSE IF ~connection THEN {"no_connection"}
  ELSE {"unsupported", "raised", "injected"}

\* inject_message's `except Exception`.
InjectCatchesNothing(exc) == FALSE

InjectCatches(exc) == exc = "Exception"

\* inject_message(message): the boolean it returns and what it raises.
InjectMessage(outcome) ==
  [returned |-> outcome = "injected",
   raised |-> IF outcome = "raised" /\ ~InjectCatches("Exception")
                THEN "InjectError" ELSE None]

\* _notify_user(message): returns at once without an agent, and otherwise
\* awaits inject_message and logs a False result.
NotifyUser(outcome) ==
  IF outcome = "no_agent" THEN [returned |-> FALSE, raised |-> None]
  ELSE InjectMessage(outcome)

\* The `except Exception` around `await self._handle_sse_event(event)`.
EventLoopCatchesNothing(exc) == FALSE

EventLoopCatches(exc) == exc \in {"Exception", "InjectError"}

\* The task runs for the first time.
EvStart ==
  /\ epc = "check"
  /\ EvSubscribe
  /\ UNCHANGED <<backoff, lastDelay, nFail, okBefore, tainted, prev,
                 connVars, callVars, handlerVars, sessionVars, agentVars, loopVars, histVars>>

\* The stream yields an event: the loop returns when the flag is off, and
\* otherwise calls _handle_sse_event(event), which runs up to its first
\* await (a status query, a notification).
EvEvent ==
  /\ StreamReady(epc)
  /\ IF active
       THEN /\ epc' = "handle"
            /\ gotEvents' = TRUE
            /\ okBefore' = TRUE
            /\ tainted' = TRUE
            /\ \E ev \in SSEEvents : sseEvent' = ev
            /\ queries' = <<>>
            /\ notes' = <<>>
            /\ injects' = <<>>
            /\ UNCHANGED fault
       ELSE /\ epc' = "exited"
            /\ UNCHANGED <<gotEvents, okBefore, tainted, handleVars>>
  /\ UNCHANGED <<backoff, lastDelay, nFail, prev, connVars, callVars, handlerVars,
                 sessionVars, agentVars, loopVars, histVars>>

\* _handle_sse_event runs to its end, the status query (if it makes one)
\* ending as `status` says and the notification (if it makes one) as `inj`
\* says; `exc` is an exception the handler lets through after that.  An
\* exception the loop's inner except clause catches is logged and the loop
\* waits for the next event; one it does not catch reaches the outer except
\* clause, which sleeps before it subscribes again.
EvHandled ==
  /\ epc = "handle"
  /\ \E status \in StatusOutcomes, inj \in InjectOutcomes,
        exc \in {None, "Exception"} :
       LET h == HandleSseEvent(sseEvent, status)
           raised == IF h.notes # <<>> /\ NotifyUser(inj).raised # None
                       THEN NotifyUser(inj).raised ELSE exc
       IN /\ queries' = h.queries
          /\ notes' = h.notes
          /\ injects' = [i \in DOMAIN h.notes |-> inj]
          /\ fault' = raised
          /\ IF raised = None \/ EventLoopCatches(raised)
               THEN /\ epc' = "stream"
                    /\ UNCHANGED <<lastDelay, nFail>>
               ELSE /\ epc' = "sleep"
                    /\ lastDelay' = backoff
                    /\ nFail' = IF nFail < MaxFailures THEN nFail + 1 ELSE nFail
  /\ UNCHANGED <<backoff, gotEvents, okBefore, tainted, prev,
                 sseEvent, connVars, callVars, handlerVars, sessionVars, agentVars,
                 loopVars, histVars>>

\* The stream ends cleanly: backoff = 1.0, and the while loop goes round.
EvStreamEnd ==
  /\ epc = "stream"
  /\ backoff' = InitialBackoff
  /\ nFail' = 0
  /\ tainted' = FALSE
  /\ prev' = "clean_end"
  /\ EvSubscribe
  /\ UNCHANGED <<lastDelay, okBefore, connVars, callVars, handlerVars,
                 sessionVars, agentVars, loopVars, histVars>>

\* The subscription raises an Exception: the loop breaks when the flag is
\* off, and otherwise sleeps for `backoff` seconds.
EvStreamError ==
  /\ epc = "stream"
  /\ nFail < MaxFailures
  /\ IF active
       THEN /\ epc' = "sleep"
            /\ lastDelay' = backoff
            /\ nFail' = nFail + 1
       ELSE /\ epc' = "exited"
            /\ UNCHANGED <<lastDelay, nFail>>
  /\ UNCHANGED <<backoff, gotEvents, okBefore, tainted, prev, handleVars, connVars, callVars,
                 handlerVars, sessionVars, agentVars, loopVars, histVars>>

\* asyncio.sleep returns: the backoff doubles up to its cap and the while
\* loop goes round.
EvWake ==
  /\ epc = "sleep"
  /\ backoff' = NextBackoff(backoff)
  /\ prev' = "slept"
  /\ okBefore' = FALSE
  /\ EvSubscribe
  /\ UNCHANGED <<lastDelay, nFail, tainted, connVars, callVars, handlerVars,
                 sessionVars, agentVars, loopVars, histVars>>

EventStep ==
  \/ EvStart
  \/ EvEvent
  \/ EvHandled
  \/ EvStreamEnd
  \/ EvStreamError
  \/ EvWake

\* ----------------------------------------------------------- direct caller
\* The session is Idle: nothing held, not active.
SessionIdle == ~active /\ eigent = None /\ agent = None /\ sse_task = None

\* await session.start() on an idle session.
ApiCallStart ==
  /\ hpc = "api"
  /\ spc = "idle"
  /\ SessionIdle
  /\ nStarts < MaxStarts
  /\ nStarts' = nStarts + 1
  /\ spc' = "start_eigent"
  /\ call' = "start"
  /\ relLog' = <<>>
  /\ UNCHANGED <<auxVars, handlerVars, active, eigent, agent, sse_task, httpx, agentVars,
                 loopVars, callLog, nAgent, nDisc, nEig, nClose, nStops>>

\* await session.stop(), in any state of the session.
ApiCallStop ==
  /\ hpc = "api"
  /\ spc = "idle"
  /\ nStops < MaxStops
  /\ StopBegin
  /\ UNCHANGED <<connVars, callVars, eventRest, handlerVars, eigent, agent, sse_task, httpx, agentVars,
                 loopVars, callLog, nAgent, nDisc, nEig, nClose, nStarts>>

\* The call returns to, or raises into, the caller.
ApiReturn ==
  /\ hpc = "api"
  /\ spc \in {"ret_ok", "ret_raise"}
  /\ callLog' = Append(callLog,
                  IF call = "start"
                    THEN (IF spc = "ret_ok" THEN "start_ok" ELSE "start_raised")
                    ELSE (IF spc = "ret_ok" THEN "stop_ok" ELSE "stop_raised"))
  /\ spc' = "idle"
  /\ call' = "none"
  /\ UNCHANGED <<auxVars, handlerVars, active, eigent, agent, sse_task, httpx, agentVars,
                 loopVars, relLog, nAgent, nDisc, nEig, nClose, nStarts, nStops>>

ApiStep ==
  \/ ApiCallStart
  \/ ApiCallStop
  \/ ApiReturn

\* await session.start() whenever no call is in progress, the session idle
\* or not: start() itself does not look at the state it finds.
SeqCallStart ==
  /\ hpc = "api"
  /\ spc = "idle"
  /\ nStarts < MaxSeqStarts
  /\ nStarts' = nStarts + 1
  /\ restarts' = IF SessionIdle THEN restarts ELSE restarts + 1
  /\ spc' = "start_eigent"
  /\ call' = "start"
  /\ relLog' = <<>>
  /\ UNCHANGED <<connVars, eventVars, on_task_submitted, probe, orphans, spc2,
                 manifest,
                 handlerVars, active, eigent, agent, sse_task, httpx, agentVars,
                 loopVars, callLog, nAgent, nDisc, nEig, nClose, nStops>>

\* ------------------------------------------- stop() during start()'s cleanup
\* A second task calls stop() while start()'s except clause is awaiting
\* _cleanup(): two executions of _cleanup() on the same session, each at its
\* own position (spc for start()'s, spc2 for stop()'s), taking turns at
\* their awaits.

\* The positions of _cleanup().
CleanupPositions ==
  {"cl_sse", "cl_agent", "cl_close", "cl_close_hung", "cl_eigent",
   "cl_eigent_hung"}

\* stop(): self._active = False; await self._cleanup()
RaceStop ==
  /\ hpc = "api"
  /\ call = "start"
  /\ spc \in CleanupPositions
  /\ spc2 = "none"
  /\ active' = FALSE
  /\ spc2' = "cl_sse"
  /\ nStops' = nStops + 1
  /\ epc' = IF sse_task # None THEN CancelRequested(epc) ELSE epc
  /\ UNCHANGED <<connVars, eventRest, callRest, handlerVars, spc, call, eigent,
                 agent, sse_task, httpx, agentVars, loopVars, callLog, relLog,
                 nAgent, nDisc, nEig, nClose, nStarts>>

\* if self._sse_task: cancel it, wait_for it, self._sse_task = None
StopCleanupSse ==
  /\ spc2 = "cl_sse"
  /\ IF sse_task # None
       THEN LET exc == SseAwaitOutcome(epc)
            IN /\ relLog' = Append(relLog, [step |-> "sse", outcome |-> exc])
               /\ epc' = SseTaskEnded(epc)
               /\ IF exc = "ok" \/ CleanupCatches("sse", exc)
                    THEN /\ sse_task' = FieldAfterRelease(sse_task)
                         /\ spc2' = "cl_agent"
                    ELSE /\ sse_task' = sse_task
                         /\ spc2' = "ret_raise"
       ELSE /\ spc2' = "cl_agent"
            /\ UNCHANGED <<sse_task, relLog, epc>>
  /\ UNCHANGED <<connVars, eventRest, callRest, handlerVars, spc, call, active,
                 eigent, agent, httpx, agentVars, loopVars, callLog, counters>>

\* The end of the agent step of stop()'s _cleanup().
StopAgentReleased(outcome, exc) ==
  /\ DisconnectFinally
  /\ relLog' = Append(relLog, [step |-> "agent", outcome |-> outcome])
  /\ IF exc = "ok" \/ CleanupCatches("agent", exc)
       THEN /\ agent' = FieldAfterRelease(agent)
            /\ spc2' = "cl_eigent"
       ELSE /\ agent' = agent
            /\ spc2' = "ret_raise"

\* if self._agent: wait_for(self._agent.disconnect()), on the agent the
\* other execution may be disconnecting too.
StopCleanupAgent ==
  /\ spc2 = "cl_agent"
  /\ IF agent = None
       THEN /\ spc2' = "cl_eigent"
            /\ UNCHANGED <<agent, agentVars, loopVars, nDisc, relLog>>
       ELSE /\ nDisc' = nDisc + 1
            /\ IF listen = "running" THEN LoopReset ELSE UNCHANGED loopVars
            /\ IF context
                 THEN /\ listen' = IF listen = "running" THEN "cancelled" ELSE listen
                      /\ spc2' = "cl_close"
                      /\ UNCHANGED <<agent, functions, client, context,
                                     connection, relLog>>
                 ELSE StopAgentReleased("ok", "ok")
  /\ UNCHANGED <<connVars, eventVars, callRest, handlerVars, spc, call, active,
                 eigent, sse_task, httpx, callLog, nAgent, nEig, nClose, nStarts,
                 nStops>>

\* disconnect(): await self._connection_context.__aexit__(None, None, None),
\* which the other execution may have entered already.
StopDisconnectClose ==
  /\ spc2 = "cl_close"
  /\ \E outcome \in {"ok", "Exception", "hang"} :
       IF outcome = "hang"
         THEN /\ spc2' = "cl_close_hung"
              /\ UNCHANGED <<agent, agentVars, relLog>>
         ELSE StopAgentReleased(outcome,
                                IF outcome = "ok" \/ DisconnectCatches(outcome)
                                  THEN "ok" ELSE outcome)
  /\ UNCHANGED <<connVars, eventVars, callRest, handlerVars, spc, call, active,
                 eigent, sse_task, httpx, loopVars, callLog, counters>>

\* wait_for's timeout on stop()'s disconnect().
StopDisconnectTimeout ==
  /\ spc2 = "cl_close_hung"
  /\ TimeoutFires
  /\ StopAgentReleased("hang",
                       IF DisconnectCatches("CancelledError") THEN "ok"
                       ELSE "TimeoutError")
  /\ UNCHANGED <<connVars, eventVars, callRest, handlerVars, spc, call, active,
                 eigent, sse_task, httpx, loopVars, callLog, counters>>

\* The end of the backend-client step of stop()'s _cleanup(): stop() returns.
StopEigentReleased(outcome, exc) ==
  /\ relLog' = Append(relLog, [step |-> "eigent", outcome |-> outcome])
  /\ IF exc = "ok" \/ CleanupCatches("eigent", exc)
       THEN /\ eigent' = FieldAfterRelease(eigent)
            /\ spc2' = "ret_ok"
       ELSE /\ eigent' = eigent
            /\ spc2' = "ret_raise"

\* if self._eigent: wait_for(self._eigent.__aexit__(None, None, None))
StopCleanupEigent ==
  /\ spc2 = "cl_eigent"
  /\ IF eigent = None
       THEN /\ spc2' = "ret_ok"
            /\ UNCHANGED <<eigent, httpx, nClose, relLog>>
       ELSE /\ nClose' = nClose + 1
            /\ IF httpx = "open"
                 THEN \E outcome \in {"ok", "Exception", "hang"} :
                        IF outcome = "hang"
                          THEN /\ spc2' = "cl_eigent_hung"
                               /\ UNCHANGED <<eigent, httpx, relLog>>
                          ELSE /\ httpx' = IF outcome = "ok" THEN "closed" ELSE httpx
                               /\ StopEigentReleased(outcome, outcome)
                 ELSE /\ StopEigentReleased("ok", "ok")
                      /\ UNCHANGED httpx
  /\ UNCHANGED <<connVars, eventVars, callRest, handlerVars, spc, call, active,
                 agent, sse_task, agentVars, loopVars, callLog, nAgent, nDisc,
                 nEig, nStarts, nStops>>

\* wait_for's timeout on stop()'s __aexit__.
StopEigentCloseTimeout ==
  /\ spc2 = "cl_eigent_hung"
  /\ TimeoutFires
  /\ StopEigentReleased("hang", "TimeoutError")
  /\ UNCHANGED <<connVars, eventVars, callRest, handlerVars, spc, call, active,
                 agent, sse_task, httpx, agentVars, loopVars, callLog, counters>>

\* The steps of stop()'s _cleanup().
StopTeardownStep ==
  \/ StopCleanupSse
  \/ StopCleanupAgent
  \/ StopDisconnectClose
  \/ StopDisconnectTimeout
  \/ StopCleanupEigent
  \/ StopEigentCloseTimeout

\* ------------------------------------------------------ function handlers
\* A call that returns None, and the record of no direct call made.
NoResult == [returned |-> None]

NoCall ==
  [op |-> "none", arg |-> "", submitted |-> <<>>, backend |-> <<>>,
   raised |-> None, result |-> NoResult, wire |-> <<>>,
   held |-> FALSE, usable |-> FALSE, has_agent |-> FALSE, connected |-> FALSE,
   live |-> FALSE]

\* The five handlers start() registers, and the send methods, called on the
\* session object directly (as test_submit_task_function does), in whatever
\* state the session is in.

\* Prompts (all shorter than 100 characters, so prompt[:100] is the prompt).
Prompts == {"", "Test task", "Write unit tests"}

\* What on_task_submitted can be: unset, or a callable that returns or raises.
CallbackKinds == {None, "returns", "raises"}

\* if self.on_task_submitted:
CallbackNeverSet(cb) == FALSE

CallbackSet(cb) == cb # None

\* The except clause around self.on_task_submitted(prompt).
SubmitCatchesNothing(exc) == FALSE

SubmitCatches(exc) == exc = "Exception"

\* The dict _fn_submit_task returns.
SubmitPayloadWithError(prompt) ==
  [status |-> "error", error |-> "Backend client unavailable"]

SubmitPayload(prompt) ==
  [status |-> "prompt_ready",
   message |-> "Task prompt prepared: " \o prompt \o "...",
   instruction |-> "The task prompt has been sent to Eigent. Please check the main window to start execution."]

\* The Backend Client operations a handler awaits: none.
BackendCallsForwarded(name) == <<[op |-> name, project_id |-> "project"]>>

BackendCalls(name) == <<>>

\* The dicts the four other handlers return.
StubPayload(name) ==
  IF name = "get_project_context"
    THEN [message |-> "Project context is not available via voice. Please check the Eigent window for project details.",
          suggestion |-> "You can describe what you want to do and I'll help formulate the task."]
  ELSE IF name = "get_task_status"
    THEN [message |-> "Task status is not available via voice. Please check the Eigent window for progress.",
          suggestion |-> "The main Eigent window shows detailed task progress and agent activity."]
  ELSE IF name = "confirm_start"
    THEN [message |-> "Task confirmation happens in the Eigent window.",
          suggestion |-> "Check the Eigent window to confirm and start the task."]
    ELSE [message |-> "To cancel a task, use the stop button in the Eigent window.",
          suggestion |-> "Click the stop button in the main Eigent interface."]

\* VoiceAgent.send_audio: `if self.connection: await ...send_media(...)`.
AgentSendAudioUnguarded == <<[type |-> "media"]>>

AgentSendAudio == IF connection THEN <<[type |-> "media"]>> ELSE <<>>

\* VoiceSession.send_audio: the two early returns, then the agent's method.
SessionSendAudio ==
  IF ~active THEN <<>>
  ELSE IF agent = None THEN <<>>
  ELSE AgentSendAudio

\* The methods of the agent object, and the calls a direct caller makes.
AgentOps == {"agent.send_audio", "agent._send_function_response"}
SendOps == AgentOps \cup {"session.send_audio"}

DirectCalls ==
  {[op |-> "submit_task", arg |-> p] : p \in Prompts}
    \cup {[op |-> n, arg |-> ""] :
            n \in (FunctionNames \ {"submit_task"}) \cup SendOps}

\* The session as the call finds it: the backend client held, its httpx
\* client open, the agent held, the agent connected, the session active.
Found ==
  [NoCall EXCEPT !.held = (eigent # None), !.usable = (httpx = "open"),
                 !.has_agent = (agent # None), !.connected = connection,
                 !.live = active]

\* _fn_submit_task(prompt)
FnSubmitTask(prompt) ==
  LET called == CallbackSet(on_task_submitted)
      exc == IF called /\ on_task_submitted = "raises" THEN "Exception" ELSE None
      escapes == IF exc # None /\ ~SubmitCatches(exc) THEN exc ELSE None
  IN [Found EXCEPT !.op = "submit_task", !.arg = prompt,
                   !.submitted = IF called THEN <<prompt>> ELSE <<>>,
                   !.backend = <<>>,
                   !.raised = escapes,
                   !.result = IF escapes = None THEN SubmitPayload(prompt)
                              ELSE NoResult]

\* _fn_get_project_context, _fn_get_task_status, _fn_confirm_start,
\* _fn_cancel_task
FnStub(name) ==
  [Found EXCEPT !.op = name, !.backend = BackendCalls(name),
                !.result = StubPayload(name)]

\* The send methods: what goes out on the agent connection.
SendCall(op) ==
  [Found EXCEPT !.op = op,
                !.wire = IF op = "agent.send_audio" THEN AgentSendAudio
                         ELSE IF op = "session.send_audio" THEN SessionSendAudio
                         ELSE SendFunctionResponse(1, "submit_task", ResultContent)]

\* One direct call, made at any point of the session's life; the methods
\* of the agent need an agent object to have been created.
DirectCall ==
  /\ hpc = "api"
  /\ \E c \in DirectCalls :
       /\ c.op \in AgentOps => nAgent > 0
       /\ probe' = IF c.op = "submit_task" THEN FnSubmitTask(c.arg)
                   ELSE IF c.op \in FunctionNames THEN FnStub(c.op)
                   ELSE SendCall(c.op)
  /\ UNCHANGED <<connVars, eventVars, on_task_submitted, orphans, restarts, spc2,
                 manifest,
                 handlerVars, sessionVars, agentVars, loopVars, histVars>>

\* --------------------------------------------------------- specifications
\* No frame taken, no entry in progress, no send task created.
InitConn ==
  /\ lpc = "run"
  /\ pend = NoEntry
  /\ frameNo = 0
  /\ tasks = <<>>
  /\ delivered = <<>>

\* No event-consumption task: start() does not create one.
InitEvent ==
  /\ epc = "none"
  /\ backoff = InitialBackoff
  /\ lastDelay = 0
  /\ nFail = 0
  /\ gotEvents = FALSE
  /\ okBefore = FALSE
  /\ tainted = FALSE
  /\ prev = "start"
  /\ sseEvent = NoEvent
  /\ queries = <<>>
  /\ notes = <<>>
  /\ injects = <<>>
  /\ fault = None

InitCall ==
  /\ manifest = IF connection THEN ManifestNames(get_function_definitions) ELSE {}
  /\ probe = NoCall
  /\ orphans = 0
  /\ restarts = 0
  /\ spc2 = "none"

InitCore ==
  /\ spc = "idle"
  /\ call = "none"
  /\ FreshSession
  /\ httpx = "none"
  /\ FreshAgent
  /\ cur = NoMsg
  /\ idx = 1
  /\ sent = <<>>
  /\ invoked = {}
  /\ raisedIds = {}
  /\ callLog = <<>>
  /\ relLog = <<>>
  /\ nAgent = 0
  /\ nDisc = 0
  /\ nEig = 0
  /\ nClose = 0
  /\ nStarts = 0
  /\ nStops = 0
  /\ sid = 0
  /\ sessions = <<>>
  /\ exitPath = "none"
  /\ readySent = FALSE
  /\ audioFwd = FALSE
  /\ InitConn
  /\ InitEvent
  /\ InitCall

\* The handler passes its on_task_submitted to the session it creates.
InitSession == InitCore /\ on_task_submitted = "returns"

Init == InitSession /\ hpc = "idle"

ApiInit == InitSession /\ hpc = "api"

Next == HandlerStep \/ SessionStep \/ ListenStep

ApiNext == ApiStep \/ SessionStep \/ ListenStep

Spec == Init /\ [][Next]_vars

\* A direct caller has started the session and runs _subscribe_events() as
\* the task held in _sse_task, which is what line 88 of start() did before
\* it was commented out.  The task has not run yet.  The frames of the
\* agent's receive task are not drawn in this specification.
EventInit ==
  /\ hpc = "api"
  /\ sid = 0
  /\ sessions = <<>>
  /\ exitPath = "none"
  /\ readySent = FALSE
  /\ audioFwd = FALSE
  /\ spc = "idle"
  /\ call = "none"
  /\ active = TRUE
  /\ eigent = "client"
  /\ agent = "agent"
  /\ sse_task = "task"
  /\ httpx = "open"
  /\ functions = RegisteredByStart
  /\ client = TRUE
  /\ context = TRUE
  /\ connection = TRUE
  /\ listen = "running"
  /\ cur = NoMsg
  /\ idx = 1
  /\ sent = <<>>
  /\ invoked = {}
  /\ raisedIds = {}
  /\ callLog = <<"start_ok">>
  /\ relLog = <<>>
  /\ nAgent = 1
  /\ nDisc = 0
  /\ nEig = 1
  /\ nClose = 0
  /\ nStarts = MaxStarts
  /\ nStops = 0
  /\ InitConn
  /\ epc = "check"
  /\ backoff = InitialBackoff
  /\ lastDelay = 0
  /\ nFail = 0
  /\ gotEvents = FALSE
  /\ okBefore = FALSE
  /\ tainted = FALSE
  /\ prev = "start"
  /\ sseEvent = NoEvent
  /\ queries = <<>>
  /\ notes = <<>>
  /\ injects = <<>>
  /\ fault = None
  /\ InitCall
  /\ on_task_submitted = "returns"

\* The handler has sent `ready` after a successful start(): the session is
\* active, the agent connected, its receive task waiting for the first frame.
ConnInit ==
  /\ hpc = "recv"
  /\ sid = 1
  /\ sessions = RegistryPut(<<>>, 1, "this")
  /\ exitPath = "none"
  /\ readySent = TRUE
  /\ audioFwd = FALSE
  /\ spc = "idle"
  /\ call = "none"
  /\ active = TRUE
  /\ eigent = "client"
  /\ agent = "agent"
  /\ sse_task = None
  /\ httpx = "open"
  /\ functions = RegisteredByStart
  /\ client = TRUE
  /\ context = TRUE
  /\ connection = TRUE
  /\ listen = "running"
  /\ cur = NoMsg
  /\ idx = 1
  /\ sent = <<>>
  /\ invoked = {}
  /\ raisedIds = {}
  /\ callLog = <<"start_ok">>
  /\ relLog = <<>>
  /\ nAgent = 1
  /\ nDisc = 0
  /\ nEig = 1
  /\ nClose = 0
  /\ nStarts = 0
  /\ nStops = 0
  /\ InitConn
  /\ InitEvent
  /\ InitCall
  /\ on_task_submitted = "returns"

ConnNext == ConnStep

ConnSpec == ConnInit /\ [][ConnNext]_vars

ApiSpec == ApiInit /\ [][ApiNext]_vars

\* The teardown steps are taken once enabled: the event loop runs the
\* coroutine that is ready, and wait_for's timer fires.
TeardownStep ==
  \/ CleanupSse
  \/ CleanupAgent
  \/ DisconnectClose
  \/ DisconnectTimeout
  \/ CleanupEigent
  \/ EigentCloseTimeout

FairSpec == ApiSpec /\ WF_vars(TeardownStep)

\* The receive task takes a frame that is not a FunctionCallRequest.
DrainRecv == ConnRecv /\ cur'.type # "FunctionCallRequest"

\* The connected phase to the end of the handler: the client's frames end
\* the handler's loop at any point, and the finally block runs while the
\* agent's receive task and the send tasks go on.  Function call requests
\* are not drawn in this specification.
DrainNext ==
  \/ DrainRecv
  \/ TransportClosed
  \/ ConnTaskStart
  \/ ConnTaskDone
  \/ ReceiveFrame
  \/ HandlerFinally
  \/ TaskCancelled
  \/ GatherDone
  \/ TeardownStep
  \/ HandlerStopReturns

DrainSpec == ConnInit /\ [][DrainNext]_vars

EventNext == EventStep \/ ApiCallStop \/ ApiReturn \/ TeardownStep

EventSpec == EventInit /\ [][EventNext]_vars

\* A direct caller of one session, built with any on_task_submitted, calls
\* start() and stop() and, at any point in between, the handlers and the
\* send methods.  The frames of the receive task are not drawn here.
CallInit == InitCore /\ hpc = "api" /\ on_task_submitted \in CallbackKinds

CallNext == DirectCall \/ ApiStep \/ SessionStep

CallSpec == CallInit /\ [][CallNext]_vars

\* A VoiceAgent with any registrations, connected by its user (hpc =
\* "agent"), next to a session that registers and connects its own agent
\* in start() (hpc = "api").
ManifestInit == InitSession /\ hpc \in {"agent", "api"}

ManifestNext == AgentRegister \/ AgentConnect \/ ApiStep \/ SessionStep

ManifestSpec == ManifestInit /\ [][ManifestNext]_vars

\* A direct caller that calls start() and stop() one after another in any
\* order, each call after the previous one has returned or raised.
SeqNext == SeqCallStart \/ ApiCallStop \/ ApiReturn \/ SessionStep

SeqSpec == ApiInit /\ [][SeqNext]_vars

\* One start() on an idle session and, while its except clause awaits
\* _cleanup(), one stop() from another task.  Both run to their end: the
\* event loop runs a coroutine that is ready, and wait_for's timers fire.
RaceNext == ApiCallStart \/ SessionStep \/ RaceStop \/ StopTeardownStep

RaceSpec ==
  /\ ApiInit
  /\ [][RaceNext]_vars
  /\ WF_vars(TeardownStep)
  /\ WF_vars(StopTeardownStep)

\* ------------------------------------------------------------------ claims
\* start() has re-raised to its caller.
StartRaised == call = "start" /\ spc = "ret_raise"

\* stop() is over.
StopReturned == call = "stop" /\ spc \in {"ret_ok", "ret_raise"}

\* Everything the session can hold is released and the flag is off.
AllReleased == ~active /\ sse_task = None /\ agent = None /\ eigent = None

\* C1: when a step of start() raises, then by the time start() re-raises the
\* agent's disconnect() has run if an agent was created, the backend client's
\* __aexit__ has run if a client was assigned, _agent, _eigent and _sse_task
\* are None, the agent's connection state is reset and the active flag is
\* false; and a session accepted after a failed start begins from the fresh
\* state.
C1_FailedStartReleasesAll ==
  /\ StartRaised =>
       /\ AllReleased
       /\ nDisc = nAgent
       /\ nClose = nEig
       /\ ~connection /\ ~context /\ ~client /\ listen = "none"
  /\ (exitPath = "start_failed" /\ hpc = "in_start" /\ spc = "start_eigent") =>
       (FreshSession /\ FreshAgent /\ httpx = "none")

\* start() failed in the connect handshake, after the backend client and the
\* agent were acquired, and has released both.
C1_Witness ==
  /\ StartRaised
  /\ nAgent = 1 /\ nDisc = 1 /\ nEig = 1 /\ nClose = 1
  /\ relLog = <<[step |-> "agent", outcome |-> "hang"],
                [step |-> "eigent", outcome |-> "ok"]>>

\* C2: whenever the active flag is true the session holds a backend client
\* and an agent whose connect() completed (client, context, connection and
\* receive task set) with exactly the five functions registered; the flag is
\* not true while start() is in progress, nor after a failed start().
C2_ActiveImpliesInitialized ==
  /\ active =>
       /\ eigent # None /\ httpx = "open"
       /\ agent # None /\ client /\ context /\ connection
       /\ listen \in {"running", "done"}
       /\ functions = FunctionNames /\ Cardinality(functions) = 5
       /\ call = "start" => spc = "ret_ok"
  /\ (callLog # <<>> /\ callLog[Len(callLog)] = "start_raised") => ~active

\* The session is active and the handler is in its receive loop.
C2_Witness == active /\ hpc = "recv" /\ listen = "running"

\* C3: whatever the release steps of stop() do (return, raise, hang until the
\* timeout), stop() returns without raising, with the flag false and
\* _sse_task, _agent and _eigent None, and every resource acquired has had
\* its release attempted: disconnect() was invoked for the agent created and
\* __aexit__ for the client assigned, also after an earlier step failed.
C3_StopAlwaysReleases ==
  StopReturned =>
    /\ spc = "ret_ok"
    /\ AllReleased
    /\ nDisc = nAgent
    /\ nClose = nEig

\* stop() returned after the agent's close hung and the client's close raised.
C3_Witness ==
  /\ StopReturned
  /\ relLog = <<[step |-> "agent", outcome |-> "hang"],
                [step |-> "eigent", outcome |-> "Exception"]>>

\* A stop() that directly follows a completed stop().
SecondStop ==
  /\ call = "stop"
  /\ callLog # <<>>
  /\ callLog[Len(callLog)] \in {"stop_ok", "stop_raised"}

\* C4: throughout a stop() that directly follows a stop(), the session stays
\* in the end state of the first one (flag false, no agent, no client, no
\* event task), no release step is performed, and the call does not raise.
C4_SecondStopIsNoOp ==
  SecondStop =>
    /\ AllReleased
    /\ relLog = <<>>
    /\ nDisc = nAgent
    /\ nClose = nEig
    /\ spc # "ret_raise"
    /\ callLog[Len(callLog)] = "stop_ok"

\* The second of two stop() calls after a successful start() has returned.
C4_Witness ==
  /\ SecondStop
  /\ spc = "ret_ok"
  /\ callLog = <<"start_ok", "stop_ok">>

\* C5: every stop() returns, also when a close operation hangs: wait_for's
\* timeout ends the wait.
C5_StopReturns == (call = "stop") ~> (call = "stop" /\ spc = "ret_ok")

\* stop() has returned although both close operations hung.
C5_Witness ==
  /\ call = "stop"
  /\ spc = "ret_ok"
  /\ relLog = <<[step |-> "agent", outcome |-> "hang"],
                [step |-> "eigent", outcome |-> "hang"]>>

\* C6: once the handler has returned, by whichever exit path, session.stop()
\* has been invoked and has returned, and the registry holds no entry of
\* this handler's session.
C6_HandlerCleansUp ==
  hpc = "returned" =>
    /\ \A i \in DOMAIN sessions : sessions[i] # "this"
    /\ nStops = 1
    /\ callLog[Len(callLog)] = "stop_ok"
    /\ exitPath \in {"stop_msg", "disconnect", "start_failed", "error"}

\* The handler returned after a client disconnect; another handler's entry is
\* still registered.
C6_Witness ==
  /\ hpc = "returned"
  /\ exitPath = "disconnect"
  /\ Others # {}

\* The responses sent, while handling the current frame, with call id `id`.
ResponsesTo(id) == {k \in DOMAIN sent : sent[k].id = id}

\* The entries of the current request that _handle_function_call has read.
Handled == {cur.functions[i] : i \in DOMAIN cur.functions}

\* Entry `e` met an internal failure: its arguments did not parse, its
\* handler raised, or its name is not registered.
Failed(e) ==
  \/ ParseArguments(e.arguments) # "ok"
  \/ e.id \in raisedIds
  \/ e.name \notin functions

\* C7: for every client-executable entry of a FunctionCallRequest that the
\* dispatch has handled, exactly one FunctionCallResponse with the entry's
\* call id has been sent, it carries the entry's function name, and it
\* carries an error payload when the entry met an internal failure; no
\* response is sent for a server-side entry.
C7_ExactlyOneResponse ==
  /\ \A e \in Handled :
       IF e.client_side
         THEN /\ Cardinality(ResponsesTo(e.id)) = 1
              /\ \A k \in ResponsesTo(e.id) :
                   /\ sent[k].type = "FunctionCallResponse"
                   /\ sent[k].name = e.name
                   /\ Failed(e) => sent[k].content.kind = "error"
         ELSE ResponsesTo(e.id) = {}
  /\ \A k \in DOMAIN sent : \E e \in Handled : e.id = sent[k].id
  /\ (listen = "running" /\ AtReceive) => Len(cur.functions) = cur.n

\* A request of two client-executable entries is fully dispatched: the
\* handler of the first raised, the second got its result.
C7_Witness ==
  /\ listen = "running"
  /\ AtReceive
  /\ cur.n = 2
  /\ raisedIds = {1}
  /\ invoked = {1, 2}
  /\ Len(sent) = 2
  /\ sent[2].content.kind = "result"

\* C8: a client-executable entry naming a registered function whose
\* arguments are not parsable JSON gets exactly one response, the error
\* "Invalid function arguments" with the entry's call id, and its handler is
\* not invoked.
C8_UnparsableArguments ==
  \A e \in Handled :
    (e.client_side /\ e.name \in functions /\ ParseArguments(e.arguments) # "ok") =>
      /\ Cardinality(ResponsesTo(e.id)) = 1
      /\ \A k \in ResponsesTo(e.id) :
           sent[k].content = ErrorContent("Invalid function arguments", "")
      /\ e.id \notin invoked

\* The second entry of a request names a registered function with
\* unparsable arguments and has been answered.
C8_Witness ==
  /\ Len(cur.functions) = 2
  /\ cur.functions[2].client_side
  /\ cur.functions[2].name \in functions
  /\ cur.functions[2].arguments = "garbage"
  /\ Len(sent) = 2
  /\ sent[2].id = 2

\* C9 as stated: every client-executable entry naming an unregistered
\* function gets exactly one "Unknown function" error response with its own
\* call id.
C9_AlwaysUnknownFunction ==
  \A e \in Handled :
    (e.client_side /\ e.name \notin functions) =>
      /\ Cardinality(ResponsesTo(e.id)) = 1
      /\ \A k \in ResponsesTo(e.id) :
           sent[k].content = ErrorContent("Unknown function", e.name)

\* C9, the part about responses: a client-executable entry naming an
\* unregistered function gets exactly one error response with its own call
\* id and no handler is invoked: "Unknown function" when its arguments
\* parse, "Invalid function arguments" when they do not.
C9_UnregisteredAnswered ==
  \A e \in Handled :
    (e.client_side /\ e.name \notin functions) =>
      /\ Cardinality(ResponsesTo(e.id)) = 1
      /\ \A k \in ResponsesTo(e.id) :
           /\ sent[k].name = e.name
           /\ sent[k].content =
                IF ParseArguments(e.arguments) = "ok"
                  THEN ErrorContent("Unknown function", e.name)
                  ELSE ErrorContent("Invalid function arguments", "")
      /\ e.id \notin invoked

\* C9 as amended: the responses as above, and the dispatch of an entry
\* naming an unregistered function leaves the agent connection's state
\* (dispatch table, client, context, connection, receive task) unchanged.
C9_UnregisteredFunction ==
  /\ []C9_UnregisteredAnswered
  /\ [][(/\ Len(cur'.functions) = Len(cur.functions) + 1
         /\ cur'.functions[Len(cur'.functions)].name \notin functions)
          => UNCHANGED agentVars]_vars

\* Two client-executable entries of one request name the same unregistered
\* function, with parsable arguments, and each has its own response.
C9_Witness ==
  /\ Len(cur.functions) = 2
  /\ \A i \in {1, 2} :
       /\ cur.functions[i].client_side
       /\ cur.functions[i].name = "no_such_function"
       /\ cur.functions[i].arguments = "json"
  /\ Len(sent) = 2
  /\ sent[1].id = 1
  /\ sent[2].id = 2

\* C10: an entry whose registered handler raised gets exactly one response,
\* the error "Function execution failed" with its call id; the step in which
\* the handler raises leaves the receive task running and moves on to the
\* next entry.
C10_HandlerErrorAnswered ==
  \A e \in Handled :
    e.id \in raisedIds =>
      /\ Cardinality(ResponsesTo(e.id)) = 1
      /\ \A k \in ResponsesTo(e.id) :
           /\ sent[k].name = e.name
           /\ sent[k].content = ErrorContent("Function execution failed", "")

C10_HandlerErrorContained ==
  /\ []C10_HandlerErrorAnswered
  /\ [][(raisedIds' # raisedIds /\ raisedIds \subseteq raisedIds')
          => (listen' = "running" /\ idx' = idx + 1)]_vars

\* After a request whose handler raised, the loop is back at its receive
\* point, running, and takes the next frame.
C10_Witness ==
  /\ raisedIds # {}
  /\ listen = "running"
  /\ AtReceive
  /\ ENABLED Recv

\* The frame the receive task has just taken is one the dispatch does not
\* recognize or cannot read.
TookUnreadable ==
  /\ frameNo' = frameNo + 1
  /\ cur'.type \in {"Unknown", "NotJson", "NotObject"}

\* C11: a text frame with an unrecognized type, or with content that is not
\* a JSON object, fires no callback (no send task is created), sends no
\* response, and leaves the receive task running at its receive point, where
\* it takes the next frame.
C11_UnreadableFrameIgnored ==
  [][TookUnreadable =>
       /\ tasks' = tasks
       /\ sent' = <<>>
       /\ listen' = "running"
       /\ lpc' = "run"
       /\ idx' > cur'.n]_vars

\* A frame of an unrecognized type was the first on the connection and the
\* receive task is about to take the following one.
C11_Witness ==
  /\ cur.type = "Unknown"
  /\ frameNo = 1
  /\ tasks = <<>>
  /\ listen = "running"
  /\ ENABLED ConnRecv

\* C12: frames are handled one at a time in arrival order: the entry whose
\* handler or response is awaited belongs to the latest frame taken, and the
\* next frame is taken only when the handling of the previous one is over.
C12_OneFrameAtATime ==
  /\ [](pend.frameNo > 0 => pend.frameNo = frameNo)
  /\ [][frameNo' # frameNo =>
          /\ frameNo' = frameNo + 1
          /\ lpc = "run"
          /\ pend.frameNo = 0
          /\ idx > cur.n]_vars

\* The handler of an entry of the second frame is suspended while the
\* connection handler forwards audio; a third frame can still arrive.
C12_Witness ==
  /\ frameNo = 2
  /\ lpc = "handler"
  /\ hpc = "audio_send"
  /\ frameNo < MaxFrames

\* The sends in progress on the agent connection, by the task issuing them:
\* the connection handler inside send_media, the receive task inside _send.
\* (inject_message is called only from the event-consumption task, which
\* start() does not create.)
SendsInProgress ==
  (IF hpc = "audio_send" THEN {"handler"} ELSE {})
    \cup (IF lpc = "send" THEN {"receive"} ELSE {})

\* C13: writes to the session's one agent connection are serialized: at most
\* one send on it is in progress at any time.
C13_WritesSerialized == Cardinality(SendsInProgress) <= 1

\* C14: the frames reach the client websocket in the order in which the
\* callbacks that produced them fired (send tasks are numbered in the order
\* of their creation, which is the order of the callbacks).
C14_OrderedDelivery ==
  \A i, j \in DOMAIN delivered : i < j => delivered[i] < delivered[j]

\* session.start() raised into the handler of the current connection.
StartFailedHere == callLog # <<>> /\ callLog[1] = "start_raised"

\* C15: when session.start() fails in the connection handler, no `ready`
\* message is sent and no client audio is forwarded: the handler is in its
\* finally block, in stop(), or has returned after stop() and the removal of
\* its registry entry.  `ready` is sent only after start() has returned.
C15_FailedStartRefused ==
  /\ StartFailedHere =>
       /\ ~readySent
       /\ ~audioFwd
       /\ hpc \in {"finally", "in_stop", "returned"}
       /\ exitPath = "start_failed"
  /\ (StartFailedHere /\ hpc = "returned") =>
       /\ callLog = <<"start_raised", "stop_ok">>
       /\ \A i \in DOMAIN sessions : sessions[i] # "this"
  /\ readySent => (callLog # <<>> /\ callLog[1] = "start_ok")

\* The handler of a connection whose start() failed has returned.
C15_Witness ==
  /\ StartFailedHere
  /\ hpc = "returned"
  /\ ~readySent
  /\ nStops = 1

\* C16: whenever the session is active, an event-consumption task consuming
\* the backend client's events is running.
C16_EventTaskRuns ==
  active => (sse_task # None /\ epc \in {"check", "stream", "handle", "sleep"})

RECURSIVE Pow2(_)
Pow2(k) == IF k = 0 THEN 1 ELSE 2 * Pow2(k - 1)

\* min(initial * 2^(N-1), cap)
NthDelay(N) ==
  IF InitialBackoff * Pow2(N - 1) < MaxBackoff
    THEN InitialBackoff * Pow2(N - 1) ELSE MaxBackoff

\* C17: the delay of the Nth of N consecutive failed subscriptions (no
\* event delivered and no clean stream end in between) is
\* min(initial * 2^(N-1), cap); no delay is below the initial value or above
\* the cap.
C17_BackoffFormula ==
  /\ InitialBackoff <= backoff
  /\ backoff <= MaxBackoff
  /\ epc = "sleep" =>
       /\ InitialBackoff <= lastDelay
       /\ lastDelay <= MaxBackoff
       /\ ~tainted => lastDelay = NthDelay(nFail)

\* The sixth failure in a row: 2^5 seconds would exceed the cap.
C17_Witness ==
  /\ epc = "sleep"
  /\ ~tainted
  /\ nFail = 6
  /\ lastDelay = MaxBackoff

\* C18: after a subscription that connected and delivered events, the
\* delay of the next failure is the initial delay, whether that
\* subscription ended cleanly or with an error.
C18_ResetAfterSuccess ==
  (epc = "sleep" /\ okBefore) => lastDelay = InitialBackoff

\* C19: every reconnect is preceded by a backoff delay: a subscription other
\* than the task's first is made after a sleep.
C19_BackoffBeforeReconnect ==
  epc \in {"stream", "handle"} => prev \in {"start", "slept"}

\* C20: once the active flag is off the loop handles no event and makes no
\* subscription: stop() clears the flag and requests the cancellation in one
\* step, the task is never again at a stream, an event or a sleep, and
\* stop() returns normally with the task ended and _sse_task cleared.
C20_StoppedLoopIsQuiet ==
  /\ [](~active => epc \in {"cancelling", "cancelled", "exited"})
  /\ [](StopReturned =>
         /\ spc = "ret_ok"
         /\ sse_task = None
         /\ epc \in {"cancelled", "exited"})
  /\ [][~active => /\ ~(epc' = "handle" /\ epc # "handle")
                   /\ ~(epc = "handle" /\ epc' = "stream")
                   /\ ~(epc' = "stream" /\ epc # "stream")
                   /\ UNCHANGED <<gotEvents, prev, nFail, lastDelay>>]_vars

\* stop() was called while an event was being handled; it has returned and
\* the teardown recorded the task's CancelledError.
C20_Witness ==
  /\ StopReturned
  /\ gotEvents
  /\ epc = "cancelled"
  /\ relLog # <<>>
  /\ relLog[1] = [step |-> "sse", outcome |-> "CancelledError"]

\* _handle_sse_event returns to the loop of _subscribe_events.
HandlingEnds == epc = "handle" /\ epc' = "stream"

\* The event being handled is a task_state event with state "completed".
CompletedEvent ==
  /\ sseEvent.event = "task_state"
  /\ "state" \in DOMAIN sseEvent.data
  /\ sseEvent.data.state = "completed"

\* C21: a task_state event with state=completed makes the handler issue
\* exactly one status query and exactly one notification, chosen by the
\* query: "All done. <total> tasks completed." when completed = total,
\* "<completed> of <total> done." when completed < total ("2 of 4 done."
\* for 2 and 4), and "A task completed." when the query fails.
C21_CompletedNotification ==
  [][(HandlingEnds /\ CompletedEvent) =>
       /\ Len(queries') = 1
       /\ Len(notes') = 1
       /\ LET st == queries'[1]
              said == notes'[1]
          IN /\ st.raised => said = "A task completed."
             /\ (~st.raised /\ st.completed = st.total) =>
                  said = "All done. " \o ToString(st.total) \o " tasks completed."
             /\ (~st.raised /\ st.completed < st.total) =>
                  said = ToString(st.completed) \o " of " \o ToString(st.total)
                           \o " done."
             /\ (~st.raised /\ st.completed = 2 /\ st.total = 4) =>
                  said = "2 of 4 done."
             /\ (~st.raised /\ st.completed = 3 /\ st.total = 3) =>
                  said = "All done. 3 tasks completed."]_vars

\* A completed event was handled with the query answering 2 of 4.
C21_Witness ==
  /\ CompletedEvent
  /\ epc = "stream"
  /\ queries = <<[raised |-> FALSE, completed |-> 2, total |-> 4]>>
  /\ notes = <<"2 of 4 done.">>

\* The notification the events other than task_state/completed call for.
ExpectedNotes(ev) ==
  IF ev.event = "task_state"
    THEN IF "state" \in DOMAIN ev.data /\ ev.data.state = "failed"
           THEN <<"A task failed. Should I retry or skip it?">>
           ELSE <<>>
  ELSE IF ev.event = "decompose_progress"
    THEN <<"I've broken this into "
            \o ToString(IF "task_count" \in DOMAIN ev.data
                          THEN ev.data.task_count ELSE 0)
            \o " tasks. Ready to start?">>
  ELSE IF ev.event = "timeout"
    THEN <<"This is taking a while. Keep waiting or cancel?">>
    ELSE <<>>

\* C22: a task_state event with state=failed, a decompose_progress event
\* and a timeout event each make the handler issue exactly one notification
\* (retry-or-skip, task count and ready-to-start, keep-waiting-or-cancel)
\* and no status query; any other event type, and a task_state event with
\* any other state, makes it issue no notification and no backend call.
C22_OtherEvents ==
  [][(HandlingEnds /\ ~CompletedEvent) =>
       /\ queries' = <<>>
       /\ notes' = ExpectedNotes(sseEvent)
       /\ Len(notes') = IF \/ sseEvent.event \in {"decompose_progress", "timeout"}
                           \/ /\ sseEvent.event = "task_state"
                              /\ sseEvent.data = [state |-> "failed"]
                         THEN 1 ELSE 0]_vars

\* A task_state event with a state that is neither completed nor failed
\* was handled, and nothing was said or asked.
C22_OtherStateIgnored ==
  /\ sseEvent = [event |-> "task_state", data |-> [state |-> "running"]]
  /\ epc = "stream"
  /\ gotEvents
  /\ notes = <<>>
  /\ queries = <<>>

\* A failed task was handled: one question to the user, no status query.
C22_FailedAsked ==
  /\ sseEvent = [event |-> "task_state", data |-> [state |-> "failed"]]
  /\ epc = "stream"
  /\ notes = <<"A task failed. Should I retry or skip it?">>
  /\ queries = <<>>

\* The latest direct call was the submit_task handler, made while the
\* session held no backend client or one whose httpx client was not open.
SubmitWithoutBackend ==
  probe.op = "submit_task" /\ (~probe.held \/ ~probe.usable)

\* C23 as stated: the submit_task handler called while the backend client is
\* unavailable returns a payload that contains an error field, without
\* raising, and on_task_submitted is still invoked with the original prompt.
C23_UnavailableGivesError ==
  SubmitWithoutBackend =>
    /\ probe.raised = None
    /\ "error" \in DOMAIN probe.result
    /\ on_task_submitted # None => probe.submitted = <<probe.arg>>

\* C23, amended: the submit_task handler called while the backend client is
\* unavailable returns, without raising, the same "prompt_ready"
\* acknowledgment as otherwise, with no error field, and on_task_submitted
\* is still invoked with the original prompt.
C23_UnavailableStillAcknowledged ==
  SubmitWithoutBackend =>
    /\ probe.raised = None
    /\ probe.result.status = "prompt_ready"
    /\ "error" \notin DOMAIN probe.result
    /\ on_task_submitted # None => probe.submitted = <<probe.arg>>

\* submit_task("Write unit tests") was called on a session with no backend
\* client, and the callback got the prompt.
C23_Witness ==
  /\ probe.op = "submit_task"
  /\ ~probe.held
  /\ probe.arg = "Write unit tests"
  /\ probe.submitted = <<"Write unit tests">>
  /\ probe.result.status = "prompt_ready"

\* C24: for every prompt the submit_task handler invokes on_task_submitted
\* exactly once, with the unmodified prompt, and returns a payload with
\* status "prompt_ready" and a message field; it does so whatever the state
\* of the backend client, without calling the backend client, and also
\* when the callback raises.
C24_SubmitAcknowledges ==
  probe.op = "submit_task" =>
    /\ probe.raised = None
    /\ probe.result.status = "prompt_ready"
    /\ "message" \in DOMAIN probe.result
    /\ probe.backend = <<>>
    /\ on_task_submitted # None =>
         (Len(probe.submitted) = 1 /\ probe.submitted[1] = probe.arg)

\* The callback raised on "Test task", the session holding a backend client,
\* and the handler still returned its acknowledgment.
C24_Witness ==
  /\ probe.op = "submit_task"
  /\ on_task_submitted = "raises"
  /\ probe.held /\ probe.usable
  /\ probe.arg = "Test task"
  /\ probe.submitted = <<"Test task">>
  /\ probe.result.status = "prompt_ready"

\* The four handlers other than submit_task.
OtherHandlers == FunctionNames \ {"submit_task"}

C26_HandlersNeverRaise ==
  probe.op \in FunctionNames =>
    /\ probe.raised = None
    /\ probe.result # NoResult
    /\ \A k \in DOMAIN probe.result :
         k \in STRING /\ probe.result[k] \in STRING

\* cancel_task was called while the session held a backend client whose
\* httpx client was not open.
C26_Witness ==
  /\ probe.op = "cancel_task"
  /\ probe.held /\ ~probe.usable
  /\ probe.raised = None

\* C30: on an agent that is not connected (never connected, or after
\* disconnect()), send_audio and _send_function_response send nothing and
\* raise nothing; VoiceSession.send_audio forwards nothing and raises
\* nothing when the session is not active or has no agent.
C30_DisconnectedSendsNothing ==
  /\ (probe.op \in AgentOps /\ ~probe.connected) =>
       (probe.wire = <<>> /\ probe.raised = None)
  /\ (probe.op = "session.send_audio" /\ (~probe.live \/ ~probe.has_agent)) =>
       (probe.wire = <<>> /\ probe.raised = None)

\* send_audio was called on an agent after its disconnect().
C30_Witness ==
  /\ probe.op = "agent.send_audio"
  /\ ~probe.connected
  /\ nDisc > 0
  /\ probe.wire = <<>>

\* VoiceSession.send_audio was called on a session that was not active.
C30_InactiveSession ==
  /\ probe.op = "session.send_audio"
  /\ ~probe.live
  /\ probe.wire = <<>>

\* A function response was sent on a connected agent: one frame went out.
C30_ConnectedSends ==
  /\ probe.op = "agent._send_function_response"
  /\ probe.connected
  /\ Len(probe.wire) = 1

\* The names start() is to register.
FiveFunctions ==
  {"submit_task", "get_project_context", "get_task_status", "confirm_start",
   "cancel_task"}

\* C27: a successful start() acquires the backend client, then creates the
\* agent, then registers exactly the five functions, then makes one
\* connect() handshake, and only then sets the active flag; the stop() that
\* follows calls the agent's disconnect().
C27_StartOrder ==
  [][/\ (eigent = None /\ eigent' # None) =>
          (agent = None /\ ~connection /\ ~active')
     /\ (agent = None /\ agent' # None) =>
          /\ eigent # None /\ httpx = "open"
          /\ functions' = FiveFunctions
          /\ ~connection' /\ ~active'
     /\ (~connection /\ connection') =>
          /\ eigent # None /\ agent # None
          /\ functions = FiveFunctions
          /\ ~active
     /\ (~active /\ active') =>
          /\ spc = "start_connect" /\ spc' = "ret_ok"
          /\ eigent' # None /\ agent' # None
          /\ functions' = FiveFunctions
          /\ connection' /\ listen' = "running"
     /\ (spc = "start_connect" /\ spc' # spc) =>
          (spc' # "start_connect" /\ nAgent' = nAgent)
     /\ (/\ callLog' # callLog
         /\ callLog # <<>>
         /\ callLog[Len(callLog)] = "start_ok"
         /\ callLog'[Len(callLog')] = "stop_ok") =>
          (nDisc' >= 1 /\ \E i \in DOMAIN relLog' : relLog'[i].step = "agent")]_vars

\* start() succeeded and the stop() after it has returned, the agent's
\* disconnect() called once.
C27_Witness ==
  /\ callLog = <<"start_ok", "stop_ok">>
  /\ nDisc = 1
  /\ nAgent = 1
  /\ functions = FiveFunctions

\* The agent connections of this session that are connected and not yet
\* disconnected, and its event-consumption tasks.
LiveConnections == orphans + (IF connection THEN 1 ELSE 0)
LiveEventTasks == IF sse_task # None THEN 1 ELSE 0

\* C28 as stated: in every reachable state the session has at most one
\* active event-consumption task and at most one active agent connection,
\* for any sequence of start() and stop() calls.
C28_AtMostOneAlways ==
  /\ LiveEventTasks <= 1
  /\ LiveConnections <= 1

\* C28, amended: the session has at most one active event-consumption task
\* and at most one active agent connection in every state reached by
\* start() and stop() calls in which start() is only called on an idle
\* session (never started, or stopped since).
C28_AtMostOneWhenStartedIdle ==
  restarts = 0 =>
    /\ LiveEventTasks <= 1
    /\ LiveConnections <= 1

\* start(), stop(), start(): the second start() found the session idle and
\* connected a second agent, the first one disconnected.
C28_Witness ==
  /\ callLog = <<"start_ok", "stop_ok", "start_ok">>
  /\ restarts = 0
  /\ nAgent = 2
  /\ nDisc = 1
  /\ connection
  /\ LiveConnections = 1

\* start() has re-raised after its cleanup and the concurrent stop() has
\* returned.
BothEnded == call = "start" /\ spc = "ret_raise" /\ spc2 = "ret_ok"

\* C29: stop() invoked while a failing start() is in its cleanup is safe:
\* under every interleaving of the two executions of _cleanup(), start()'s
\* cleanup runs to its last statement before start() re-raises, stop()
\* returns without raising, both do end, and the session is then left with
\* the active flag false and the agent connection, the backend client and
\* the event task released.
C29_ConcurrentStopIsSafe ==
  /\ [][(call = "start" /\ spc \in CleanupPositions /\ spc' = "ret_raise") =>
          /\ spc \in {"cl_eigent", "cl_eigent_hung"}
          /\ sse_task' = None /\ agent' = None /\ eigent' = None]_vars
  /\ [](spc2 # "ret_raise")
  /\ [](BothEnded =>
          /\ AllReleased
          /\ ~connection /\ ~context /\ ~client /\ listen = "none")
  /\ (spc2 # "none") ~> BothEnded

\* Both executions ended after each of them had called disconnect() on the
\* same agent and __aexit__ on the same backend client.
C29_Witness ==
  /\ BothEnded
  /\ nAgent = 1
  /\ nDisc = 2
  /\ nClose = 2
  /\ AllReleased

\* ------------------------------------------------------------------- C31
\* The step on which connect() raises.
ConnectFails == spc = "start_connect" /\ spc' \notin {"start_connect", "ret_ok"}

\* C31 as stated: when connect() fails, connect() itself leaves the agent
\* in the Disconnected state: no connection, no connection context, no
\* client and no receive task are held when the error propagates.
C31_ConnectReleasesOnFailure ==
  [][ConnectFails =>
       (~client' /\ ~context' /\ ~connection' /\ listen' = "none")]_vars

\* C31, amended: a failing connect() holds no receive task but keeps what it
\* had set (the client and the context, and the connection when the Settings
\* frame failed); the disconnect() of start()'s cleanup releases it, so the
\* agent is Disconnected by the time start() re-raises.
C31_ConnectFailureReleasedByCleanup ==
  /\ [][ConnectFails =>
         /\ listen' = "none"
         /\ connection' => context'
         /\ context' => client'
         /\ spc' = "cl_sse"]_vars
  /\ [](StartRaised =>
         (~client /\ ~context /\ ~connection /\ listen = "none"))

\* connect() failed on the Settings frame: the transport is still held when
\* the error reaches start().
C31_Witness ==
  /\ call = "start" /\ spc = "cl_sse" /\ nAgent = 1
  /\ client /\ context /\ connection /\ listen = "none"

\* ------------------------------------------------------------------- C32
\* The steps of the release log, in the order they were taken.
ReleaseOrder == [i \in DOMAIN relLog |-> relLog[i].step]

\* C32: stop() works in a fixed order.  The active flag is false before
\* anything is released; the agent is disconnected only after the event task
\* was cancelled, awaited and its field cleared; the backend client is closed
\* only when neither the event task nor the agent is still held; a stop()
\* that released all three did so in the order event task, agent, client.
C32_StopOrder ==
  /\ [][(call = "stop" /\ relLog' # relLog) => ~active]_vars
  /\ [][(call = "stop" /\ nDisc' = nDisc + 1) =>
          (~active /\ sse_task = None /\ epc \in {"exited", "cancelled"})]_vars
  /\ [][(call = "stop" /\ nClose' = nClose + 1) =>
          (~active /\ sse_task = None /\ agent = None
             /\ ~connection /\ listen # "running")]_vars
  /\ []((call = "stop" /\ spc = "ret_ok" /\ Len(relLog) = 3) =>
          ReleaseOrder = <<"sse", "agent", "eigent">>)

\* stop() on a started session with a running event task has returned
\* after releasing the task, the agent and the backend client.
C32_Witness ==
  /\ call = "stop" /\ spc = "ret_ok"
  /\ ReleaseOrder = <<"sse", "agent", "eigent">>
  /\ nDisc = 1 /\ nClose = 1
  /\ sse_task = None /\ agent = None /\ eigent = None

\* ------------------------------------------------------------------- C33
\* The Disconnected state of the agent connection.
Disconnected == ~client /\ ~context /\ ~connection /\ listen = "none"

\* The step on which a disconnect() ends: _cleanup logs its agent step.
DisconnectEnds ==
  /\ Len(relLog') = Len(relLog) + 1
  /\ relLog'[Len(relLog')].step = "agent"

\* C33: disconnect() closes the transport only after the receive task was
\* cancelled and has ended, and resets the connection state only after the
\* close; when it ends the state is Disconnected, whatever closing did; the
\* receive task handles a frame only while it runs, which it never does in
\* the Disconnected state; on an agent that never connected, disconnect()
\* changes nothing and raises nothing.
C33_DisconnectOrder ==
  /\ [](spc \in {"cl_close", "cl_close_hung"} =>
          (listen # "running" /\ cur = NoMsg /\ context))
  /\ [][DisconnectEnds => Disconnected']_vars
  /\ [](Disconnected => cur = NoMsg)
  /\ [][(cur' # NoMsg /\ <<cur, idx, sent, invoked>>' # <<cur, idx, sent, invoked>>)
          => (listen = "running" /\ listen' = "running")]_vars
  /\ [][(nDisc' = nDisc + 1 /\ Disconnected) =>
          /\ DisconnectEnds
          /\ relLog'[Len(relLog')].outcome = "ok"
          /\ agentVars' = agentVars
          /\ spc' = "cl_eigent"]_vars

\* A disconnect() whose close of the transport raised has ended.
C33_Witness ==
  /\ spc = "cl_eigent"
  /\ relLog # <<>>
  /\ relLog[Len(relLog)] = [step |-> "agent", outcome |-> "Exception"]
  /\ Disconnected

\* _cleanup is about to call disconnect() on an agent whose connect() never
\* got as far as creating the client.
C33_NeverConnected ==
  /\ spc = "cl_agent" /\ call = "start" /\ agent # None /\ Disconnected

\* ------------------------------------------------------------------- C34
\* The Settings frame of a connect() that opened the transport is out.
SettingsSent == connection

\* C34 as stated: the function names of the manifest sent at connect() are
\* the names registered with register_function before connect(), for every
\* set of registrations.
C34_ManifestEqualsRegistry == SettingsSent => manifest = functions

\* C34, amended: the manifest is the same five names whatever was
\* registered; it equals the registered names when exactly those five were
\* registered, which is what the session's start() does before it connects.
C34_ManifestIsFixed ==
  /\ SettingsSent =>
       manifest = {"submit_task", "get_project_context", "get_task_status",
                   "confirm_start", "cancel_task"}
  /\ (SettingsSent /\ functions = RegisteredByStart) => manifest = functions
  /\ (SettingsSent /\ hpc = "api") => manifest = functions

\* An agent connected with one registration outside the five and one of the
\* five missing: the manifest names neither set.
C34_Witness ==
  /\ hpc = "agent" /\ SettingsSent /\ listen = "running"
  /\ "lookup_weather" \in functions
  /\ "cancel_task" \notin functions
  /\ "cancel_task" \in manifest

\* The session's own agent, connected by start().
C34_SessionConnected ==
  /\ hpc = "api" /\ SettingsSent /\ listen = "running"
  /\ manifest = functions

\* ------------------------------------------------------------------- C35
\* The loop takes an event from the stream and calls its handler.
TakesEvent ==
  /\ epc' = "handle"
  /\ epc # "handle" \/ <<sseEvent, queries, notes, injects>>' #
                         <<sseEvent, queries, notes, injects>>

\* C35: the events of a subscription are handled one at a time, in stream
\* order.  An event is taken only when no handler is running; while a
\* handler runs it is the only one, and the status query and the
\* notification it makes are those of the event taken last, made before the
\* next event is taken; every notification is passed on for injection then.
C35_OneEventAtATime ==
  /\ [][TakesEvent => epc = "stream"]_vars
  /\ [](epc = "handle" => (queries = <<>> /\ notes = <<>> /\ injects = <<>>))
  /\ [][((notes' # notes /\ notes' # <<>>) \/ (queries' # queries /\ queries' # <<>>))
          => (epc = "handle" /\ epc' = "stream" /\ sseEvent' = sseEvent
                /\ Len(injects') = Len(notes'))]_vars

\* An event was handled to its end, its notification injected, and the loop
\* is back at the stream for the next event.
C35_Witness ==
  /\ epc = "stream"
  /\ sseEvent.event = "decompose_progress"
  /\ notes # <<>>
  /\ injects = <<"injected">>

\* ------------------------------------------------------------------- C36
\* The handler of an event returns or raises into the loop.
HandlerLeaves == epc = "handle" /\ epc' \notin {"handle", "cancelling"}

\* C36: a failure while one event is handled ends neither the loop nor the
\* session.  A notification that cannot be injected raises nothing; whatever
\* the handler raises, the loop goes back to the same subscription's stream
\* with its backoff state untouched, and the session's flag and
\* collaborators are as they were.
C36_EventFailureContained ==
  [][HandlerLeaves =>
       /\ epc' = "stream"
       /\ fault' # "InjectError"
       /\ \A i \in DOMAIN injects' : NotifyUser(injects'[i]).raised = None
       /\ UNCHANGED <<backoff, lastDelay, nFail, gotEvents, prev>>
       /\ UNCHANGED <<spc, active, agent, eigent, sse_task, connection, listen>>]_vars

\* The handler of the previous event raised, and the loop has taken the next
\* event of the same subscription.
C36_Witness ==
  /\ epc = "handle"
  /\ fault = "Exception"
  /\ active

\* A notification whose injection call raised: the handler returned.
C36_InjectionRaised ==
  /\ epc = "stream"
  /\ injects = <<"raised">>
  /\ fault = None

\* ------------------------------------------------------------------- C37
\* C37 as stated: when the voice_stream handler has returned no send task is
\* left pending, those created by callbacks that fire during the cleanup
\* included, and no write to the client websocket is begun or in progress.
C37_NoTaskLeftPending == hpc = "returned" => PendingTasks(tasks) = {}

\* The handler has returned while a send task created after the sweep is in
\* the middle of its write to the client websocket.
C37_TaskOutlivesHandler ==
  /\ hpc = "returned"
  /\ \E i \in DOMAIN tasks : tasks[i] = "sending"
  /\ \E j \in DOMAIN tasks : tasks[j] = "cancelled"

\* ------------------------------------------------------------------- C38
\* An execution of _cleanup() at this position is inside its
\* `await wait_for(self._agent.disconnect())`: the field is still set.
InDisconnect(p) == p \in {"cl_close", "cl_close_hung"}

\* The same for `await wait_for(self._eigent.__aexit__(...))`.
InClientClose(p) == p = "cl_eigent_hung"

\* C38 as stated: under any interleaving of start(), its failure cleanup
\* and stop(), disconnect() is invoked at most once for each agent created
\* and the backend client's close at most once for each client acquired.
C38_ReleasedAtMostOnce == nDisc <= nAgent /\ nClose <= nEig

\* C38, amended: each execution of _cleanup() invokes each release at most
\* once, so without a concurrent stop() each resource is released at most
\* once, and with one at most twice; a second invocation on the same object
\* is made only while the other execution is still inside its own, before it
\* has cleared the field.
C38_ReleasedOncePerCleanup ==
  /\ [](spc2 = "none" => (nDisc <= nAgent /\ nClose <= nEig))
  /\ [](nDisc <= 2 * nAgent /\ nClose <= 2 * nEig)
  /\ [][(nDisc' = nDisc + 1 /\ nDisc >= nAgent) =>
          (IF spc' # spc THEN InDisconnect(spc2) ELSE InDisconnect(spc))]_vars
  /\ [][(nClose' = nClose + 1 /\ nClose >= nEig) =>
          (IF spc' # spc THEN InClientClose(spc2) ELSE InClientClose(spc))]_vars

\* start()'s cleanup and the concurrent stop() are both inside disconnect()
\* on the one agent the session created.
C38_Witness ==
  /\ nAgent = 1
  /\ nDisc = 2
  /\ InDisconnect(spc)
  /\ InDisconnect(spc2)

====
